---- MODULE Spec2Model ----
(***************************************************************************)
(* A model of the Bun SQL driver for Kysely (src/src/driver.ts, the        *)
(* PID-tracking revision at lines 136-361): the connection lifecycle       *)
(* manager BunPostgresDriver and the connection handle                     *)
(* BunPostgresConnection, over a black-box pooled client that offers       *)
(* reserve(), release(), unsafe() and close().                             *)
(***************************************************************************)
EXTENDS Integers, Sequences, FiniteSets, TLC

(***************************************************************************)
(* Bounds of the model.                                                    *)
(***************************************************************************)
\* acquireConnection() calls made on the driver (one handle each)
MaxCalls == 4
\* physical connections of the pool
NumConns == 2
\* advances of the wall clock
MaxTicks == 2
\* statements a caller issues through one handle
MaxStmts == 3
\* acquireConnection() calls in flight together
MaxConcurrent == 2
\* destroy() calls made on the driver
MaxDestroys == 1
\* handles a caller runs transactions on
MaxTxHandles == 1
\* drivers constructed one after the other
MaxInstances == 2
\* acquireConnection() calls made around a teardown
MaxTeardownCalls == 3
MaxFrameStmts == 1
MaxInFlight == 2
MaxReleases == 2

(***************************************************************************)
(* Program constants.                                                      *)
(***************************************************************************)
DEFAULT_CONNECTION_TTL_MS == 3600 * 1000
PRUNE_INTERVAL_MS == 60000

Calls == 1..MaxCalls
Conns == 1..NumConns

(***************************************************************************)
(* JavaScript values that the identity query can put in the pid column.    *)
(* A number is kept as a fraction num/den so that non-integers exist.      *)
(***************************************************************************)
Undefined == [type |-> "undefined", num |-> 0, den |-> 1]
Str1000 == [type |-> "string", num |-> 1000, den |-> 1]
Num(n, d) == [type |-> "number", num |-> n, den |-> d]

\* typeof v === "number"
IsNumberLoose(v) == v.type # "undefined"
IsNumber(v) == v.type = "number"

\* a usable backend process identifier: a positive integer
IsPositiveInteger(v) == v.type = "number" /\ v.den = 1 /\ v.num > 0

\* results of unsafe("SELECT pg_backend_pid() AS pid"): a sequence of rows
NoRow == << >>
Row(v) == << [pid |-> v] >>
PgResults == {Row(Num(1000, 1)), Row(Num(2000, 1))}
OddResults ==
    {NoRow, Row(Undefined), Row(Str1000), Row(Num(0, 1)), Row(Num(-1, 1)), Row(Num(3, 2))}
IdentityResults == PgResults \cup OddResults

\* const row = result?.[0]; const pid = row?.pid;
RowPid(result) == IF Len(result) = 0 THEN Undefined ELSE result[1].pid

(***************************************************************************)
(* SQL texts and compiled queries.                                         *)
(***************************************************************************)
IDENTITY_SQL == "SELECT pg_backend_pid() AS pid"

\* kysely's CompiledQuery.raw(sql): the text with no parameters
CompiledQueryRaw(sql) == [sql |-> sql, parameters |-> << >>]

(***************************************************************************)
(* Values of configurations and results: undefined, strings, numbers, big  *)
(* integers and callbacks. A callback is the reference ref of a function   *)
(* object; a copy of it would be another reference.                        *)
(***************************************************************************)
JsUndefined == [type |-> "undefined", num |-> 0, str |-> ""]
JsStr(x) == [type |-> "string", num |-> 0, str |-> x]
JsNum(n) == [type |-> "number", num |-> n, str |-> ""]
JsBigInt(n) == [type |-> "bigint", num |-> n, str |-> ""]
JsFn(ref) == [type |-> "function", num |-> ref, str |-> ""]

(***************************************************************************)
(* Raw results of unsafe(): BunSqlResult, an array of rows that carries    *)
(* the command tag and the count of affected rows, each possibly undefined.*)
(***************************************************************************)
RowSeqs == {<< >>, << "row1" >>, << "row1", "row2" >>, << "row2", "row1" >>}
Commands ==
    {JsUndefined} \cup
    {JsStr(c) : c \in {"INSERT", "UPDATE", "DELETE", "MERGE", "SELECT", "insert"}}
Counts == {JsUndefined, JsNum(0), JsNum(3)}
RawResults == [rows : RowSeqs, command : Commands, count : Counts]

\* what the stub client of the unit tests answers: rows without command or count
PlainResult == [rows |-> << >>, command |-> JsUndefined, count |-> JsUndefined]

\* command === "INSERT" || command === "UPDATE" || command === "DELETE" || command === "MERGE"
IsMutationCommand(command) ==
    command \in {JsStr("INSERT"), JsStr("UPDATE"), JsStr("DELETE"), JsStr("MERGE")}

\* count !== undefined
CountDefinedTruthy(count) == count.type # "undefined" /\ count.num # 0
CountDefined(count) == count.type # "undefined"

\* the numAffectedRows of executeQuery: BigInt(count) or undefined
NumAffectedRows(result) ==
    IF IsMutationCommand(result.command) /\ CountDefined(result.count)
    THEN JsBigInt(result.count.num)
    ELSE JsUndefined

\* rows: [...result]
RowsOfSelectOnly(result) ==
    IF IsMutationCommand(result.command) THEN << >> ELSE result.rows
RowsOf(result) == [i \in 1..Len(result.rows) |-> result.rows[i]]

\* the QueryResult that executeQuery returns for a raw result
QueryResultOf(result) ==
    [numAffectedRows |-> NumAffectedRows(result), rows |-> RowsOf(result)]

\* no executeQuery has returned on the handle yet
NoReturn == [set |-> FALSE, op |-> 0, raw |-> PlainResult,
             result |-> QueryResultOf(PlainResult)]

\* no streamQuery generator has been made on the handle yet
NoStream == [state |-> "none", op |-> 0, query |-> CompiledQueryRaw(""),
             rows |-> << >>, pos |-> 0]

VARIABLES
    config,           \* #config; maxLifetime is clientOptions?.maxLifetime
    client,           \* #client: what init() made the pool client from
    connectionTtlMs,  \* #connectionTtlMs
    initializedPids,  \* #initializedPids: Map<number, number>, PID -> last seen
    lastPruneTime,    \* #lastPruneTime
    now,              \* Date.now()
    ticks,            \* clock advances so far
    reservedBy,       \* per physical connection: the call holding it, 0 if free
    pc,               \* per acquireConnection call: where it and its handle stand
    conn,             \* per call: the physical connection of its handle, 0 if none
    err,              \* per call: the error acquireConnection threw, "none" if none
    reply,            \* per call: the rows its identity query resolved with, if any
    reserveCalls,     \* per call: reserve() calls made
    releaseCalls,     \* per call: release() calls made on its reserved connection
    issued,           \* per call: unsafe() calls made on its reserved connection
    ops,              \* per call: operations the caller invoked with the handle
    outcome,          \* per call: how the latest operation on the handle ended
    hookLog,          \* invocations of onCreateConnection: [pid, at, call, conn, state]
    obsLog,           \* writes of a PID into the map: [pid, at, call]
    destroyCalls,     \* destroy() calls
    closeCalls,       \* close() calls on the pool
    destroyPc,        \* where destroy() stands: idle, closing, done
    closeArgs,        \* the argument of each close() call on the pool
    atDestroy,        \* when destroy() was last called: was no acquisition in
                      \* flight, and how many had been started
    instance,         \* drivers constructed so far; the latest is the live one
    born,             \* lengths of the logs when the live driver was constructed
    returned,         \* per call: the raw result and the QueryResult of the
                      \* latest executeQuery that returned
    stream,           \* per call: the latest streamQuery generator
    batches,          \* per call: the batches that generator has yielded
    inflight          \* per call: the unsafe() calls of its handle not yet settled

vars == << config, connectionTtlMs, initializedPids, lastPruneTime, now, ticks,
           reservedBy, pc, conn, err, reply, reserveCalls, releaseCalls, issued,
           ops, outcome, hookLog, obsLog, destroyCalls, closeCalls, destroyPc,
           client, closeArgs, atDestroy, instance, born, returned, stream,
           batches, inflight >>

cfgVars == << config, client, connectionTtlMs >>
clockVars == << now, ticks >>
trackVars == << initializedPids, lastPruneTime, hookLog, obsLog >>
callVars == << pc, conn, err, reply, reserveCalls, releaseCalls, issued, ops,
              outcome >>
destroyVars == << destroyCalls, closeCalls, destroyPc, closeArgs, atDestroy,
                 instance, born >>
queryVars == << returned, stream, batches, inflight >>

(***************************************************************************)
(* Map operations.                                                         *)
(***************************************************************************)
MapSetLost(m, k, v) == m
MapSetAlone(m, k, v) == [x \in {k} |-> v]
MapSetIfAbsent(m, k, v) ==
    [x \in DOMAIN m \cup {k} |-> IF x \in DOMAIN m THEN m[x] ELSE v]
MapSet(m, k, v) == [x \in DOMAIN m \cup {k} |-> IF x = k THEN v ELSE m[x]]
MapHas(m, k) == k \in DOMAIN m
EmptyMap == [x \in {} |-> 0]

(***************************************************************************)
(* The constructor.                                                        *)
(***************************************************************************)
None == [set |-> FALSE, val |-> 0]
Some(v) == [set |-> TRUE, val |-> v]

\* url?: string
AbsentUrl == [set |-> FALSE, val |-> ""]
Url(u) == [set |-> TRUE, val |-> u]

\* an object literal: a function from its keys to their values
EmptyObject == [x \in {} |-> JsNum(0)]

\* clientOptions?: BunSqlClientOptions
AbsentOptions == [set |-> FALSE, obj |-> EmptyObject]
PresentOptions(obj) == [set |-> TRUE, obj |-> obj]

\* const maxLifetimeSec = config.clientOptions?.maxLifetime
MaxLifetimeOf(clientOptions) ==
    IF clientOptions.set /\ "maxLifetime" \in DOMAIN clientOptions.obj
    THEN Some(clientOptions.obj["maxLifetime"].num)
    ELSE None

\* a BunPostgresDialectConfig
MakeConfig(hook, given, url, clientOptions, closeOptions) ==
    [onCreateConnection |-> hook,
     maxLifetime |-> MaxLifetimeOf(clientOptions),
     client |-> given,
     url |-> url,
     clientOptions |-> clientOptions,
     closeOptions |-> closeOptions]

\* maxLifetimeSec !== undefined ? maxLifetimeSec * 1000 : DEFAULT_CONNECTION_TTL_MS
ConnectionTtlMsSeconds(maxLifetime) ==
    IF maxLifetime.set THEN maxLifetime.val ELSE DEFAULT_CONNECTION_TTL_MS
ConnectionTtlMs(maxLifetime) ==
    IF maxLifetime.set THEN maxLifetime.val * 1000 ELSE DEFAULT_CONNECTION_TTL_MS

\* the clock at construction: late enough that the first prune is not throttled,
\* as with any real Date.now() against #lastPruneTime = 0
StartTime == 2 * PRUNE_INTERVAL_MS

Constructed(cfgs) ==
    /\ config \in cfgs
    /\ connectionTtlMs = ConnectionTtlMs(config.maxLifetime)
    /\ initializedPids = EmptyMap
    /\ lastPruneTime = 0
    /\ now = StartTime
    /\ ticks = 0
    /\ reservedBy = [c \in Conns |-> 0]
    /\ pc = [k \in Calls |-> "idle"]
    /\ conn = [k \in Calls |-> 0]
    /\ err = [k \in Calls |-> "none"]
    /\ reply = [k \in Calls |-> << >>]
    /\ reserveCalls = [k \in Calls |-> 0]
    /\ releaseCalls = [k \in Calls |-> 0]
    /\ issued = [k \in Calls |-> << >>]
    /\ ops = [k \in Calls |-> << >>]
    /\ outcome = [k \in Calls |-> "none"]
    /\ hookLog = << >>
    /\ obsLog = << >>
    /\ destroyCalls = 0
    /\ closeCalls = 0
    /\ destroyPc = "idle"
    /\ closeArgs = << >>
    /\ atDestroy = [quiet |-> TRUE, started |-> 0]
    /\ instance = 1
    /\ born = [hooks |-> 0, obs |-> 0]
    /\ returned = [k \in Calls |-> NoReturn]
    /\ stream = [k \in Calls |-> NoStream]
    /\ batches = [k \in Calls |-> << >>]
    /\ inflight = [k \in Calls |-> 0]

\* clientOptions that hold the connection lifetime and nothing else
LifetimeOptions(lifetime) ==
    IF lifetime.set
    THEN PresentOptions([x \in {"maxLifetime"} |-> JsNum(lifetime.val)])
    ELSE AbsentOptions

\* configurations that supply the pool client, as the unit tests do
Configs(hooks, lifetimes) ==
    {MakeConfig(h, TRUE, AbsentUrl, LifetimeOptions(l), None) :
        h \in hooks, l \in lifetimes}

(***************************************************************************)
(* #pruneStaleConnections(): the map and the last-prune time it leaves.    *)
(***************************************************************************)
IsStaleNever(t, timestamp, ttl) == FALSE
IsStale(t, timestamp, ttl) == t - timestamp > ttl

PruneThrottledNever(t, last) == FALSE
PruneThrottled(t, last) == t - last < PRUNE_INTERVAL_MS

pruneStaleConnections(pids, last, t, ttl) ==
    IF PruneThrottled(t, last)
    THEN [pids |-> pids, last |-> last]
    ELSE [pids |-> [p \in {q \in DOMAIN pids : ~IsStale(t, pids[q], ttl)} |-> pids[p]],
          last |-> t]

(***************************************************************************)
(* init(): the supplied client is adopted, or else one is constructed with *)
(* new SQL(url), new SQL({ ... }) or new SQL().                            *)
(***************************************************************************)
Uninitialized == [type |-> "uninitialized", url |-> "", options |-> EmptyObject]
GivenClient == [type |-> "client", url |-> "", options |-> EmptyObject]
UrlString(u) == [type |-> "url-string", url |-> u, options |-> EmptyObject]
OptionsObject(o) == [type |-> "options", url |-> "", options |-> o]
NoArguments == [type |-> "empty", url |-> "", options |-> EmptyObject]

\* if (this.#config.url): a string is truthy unless it is empty
UrlTruthyWhenSet(url) == url.set
UrlTruthy(url) == url.set /\ url.val # ""

\* const { url: _ignoredUrl, ...restClientOptions } = this.#config.clientOptions
OmitNothing(obj, key) == obj
OmitWithCallbacks(obj, key) ==
    [x \in {y \in DOMAIN obj : y # key /\ obj[y].type # "function"} |-> obj[x]]
Omit(obj, key) == [x \in DOMAIN obj \ {key} |-> obj[x]]

\* { ...a, ...b }: the keys of both, b's value where both have the key
SpreadWithoutUrl(a, b) ==
    [x \in DOMAIN a \cup (DOMAIN b \ {"url"}) |-> IF x \in DOMAIN b THEN b[x] ELSE a[x]]
Spread(a, b) ==
    [x \in DOMAIN a \cup DOMAIN b |-> IF x \in DOMAIN b THEN b[x] ELSE a[x]]

\* the arguments init() gives to new SQL(...)
SqlArgsUrlFirst(cfg) ==
    IF UrlTruthy(cfg.url)
    THEN UrlString(cfg.url.val)
    ELSE IF cfg.clientOptions.set
         THEN OptionsObject(Spread(EmptyObject, cfg.clientOptions.obj))
         ELSE NoArguments
SqlArgs(cfg) ==
    IF UrlTruthy(cfg.url)
    THEN IF cfg.clientOptions.set
         THEN OptionsObject(Spread([x \in {"url"} |-> JsStr(cfg.url.val)],
                                   Omit(cfg.clientOptions.obj, "url")))
         ELSE UrlString(cfg.url.val)
    ELSE IF cfg.clientOptions.set
         THEN OptionsObject(Spread(EmptyObject, cfg.clientOptions.obj))
         ELSE NoArguments

init(cfg) == IF cfg.client THEN GivenClient ELSE SqlArgs(cfg)

InitCall ==
    /\ client = Uninitialized
    /\ client' = init(config)
    /\ UNCHANGED << config, connectionTtlMs, clockVars, reservedBy, trackVars,
                    callVars, destroyVars, queryVars >>

\* a driver that has been constructed and initialized
Initialized(cfgs) ==
    /\ Constructed(cfgs)
    /\ client = init(config)

(***************************************************************************)
(* unsafe(sql, params) on the reserved connection c. A statement is logged *)
(* with the connection it went to and with who sent it: acquireConnection  *)
(* (op 0) or the i-th operation of the caller on the handle.               *)
(***************************************************************************)
StmtNoParams(c, query, by, i) ==
    [sql |-> query.sql, params |-> << >>, by |-> by, op |-> i, on |-> c]
Stmt(c, query, by, i) ==
    [sql |-> query.sql, params |-> query.parameters, by |-> by, op |-> i, on |-> c]

(***************************************************************************)
(* acquireConnection(), one action per stretch between suspension points.  *)
(***************************************************************************)

\* the call is made: client.reserve() is called and awaited
AcquireCall(k) ==
    /\ pc[k] = "idle"
    /\ \A j \in 1..(k - 1) : pc[j] # "idle"
    /\ pc' = [pc EXCEPT ![k] = "reserve"]
    /\ reserveCalls' = [reserveCalls EXCEPT ![k] = @ + 1]
    /\ UNCHANGED << cfgVars, queryVars, clockVars, reservedBy, trackVars, destroyVars,
                    conn, err, reply, releaseCalls, issued, ops, outcome >>

\* reserve() rejects: the error leaves acquireConnection as it is
ReserveRejectRetry(k) ==
    /\ pc[k] = "reserve"
    /\ reserveCalls[k] < 2
    /\ reserveCalls' = [reserveCalls EXCEPT ![k] = @ + 1]
    /\ UNCHANGED << cfgVars, queryVars, clockVars, reservedBy, trackVars, destroyVars,
                    pc, conn, err, reply, releaseCalls, issued, ops, outcome >>
ReserveReject(k) ==
    /\ pc[k] = "reserve"
    /\ pc' = [pc EXCEPT ![k] = "failed"]
    /\ err' = [err EXCEPT ![k] = "reserve"]
    /\ UNCHANGED << cfgVars, queryVars, clockVars, reservedBy, trackVars, destroyVars,
                    conn, reply, reserveCalls, releaseCalls, issued, ops, outcome >>

\* if (this.#config.onCreateConnection)
HookConfiguredAlways(cfg) == TRUE
HookConfiguredNever(cfg) == FALSE
HookConfigured(cfg) == cfg.onCreateConnection

\* reserve() resolves with the free connection c; without a hook the handle is
\* returned, with one the map is pruned and the identity query sent
ReserveResolve(k, c) ==
    /\ pc[k] = "reserve"
    /\ reservedBy[c] = 0
    /\ reservedBy' = [reservedBy EXCEPT ![c] = k]
    /\ conn' = [conn EXCEPT ![k] = c]
    /\ IF HookConfigured(config)
       THEN LET pruned == pruneStaleConnections(initializedPids, lastPruneTime,
                                                now, connectionTtlMs)
            IN  /\ initializedPids' = pruned.pids
                /\ lastPruneTime' = pruned.last
                /\ issued' = [issued EXCEPT ![k] =
                       Append(@, Stmt(c, CompiledQueryRaw(IDENTITY_SQL), "acquireConnection", 0))]
                /\ pc' = [pc EXCEPT ![k] = "query"]
       ELSE /\ pc' = [pc EXCEPT ![k] = "held"]
            /\ UNCHANGED << initializedPids, lastPruneTime, issued >>
    /\ UNCHANGED << cfgVars, queryVars, clockVars, hookLog, obsLog, destroyVars,
                    err, reply, reserveCalls, releaseCalls, ops, outcome >>

\* isNewConnection
IsNewConnectionAlways(pids, pid, t, ttl) == TRUE
IsNewConnectionAbsentOnly(pids, pid, t, ttl) == ~MapHas(pids, pid)
IsNewConnectionNever(pids, pid, t, ttl) == FALSE
IsNewConnectionAtTtl(pids, pid, t, ttl) ==
    \/ ~MapHas(pids, pid)
    \/ t - pids[pid] >= ttl
IsNewConnection(pids, pid, t, ttl) ==
    \/ ~MapHas(pids, pid)
    \/ t - pids[pid] > ttl

\* await this.#config.onCreateConnection(connection)
HookNotAwaited == FALSE
HookAwaited == TRUE

\* the identity query resolves with the rows the backend answers
IdentityResolve(k, result) ==
    /\ pc[k] = "query"
    /\ reply' = [reply EXCEPT ![k] = << result >>]
    /\ LET pid == RowPid(result)
       IN  IF ~IsNumber(pid)
           THEN /\ pc' = [pc EXCEPT ![k] = "failed"]
                /\ err' = [err EXCEPT ![k] = "pid"]
                /\ UNCHANGED << initializedPids, hookLog, obsLog >>
           ELSE /\ initializedPids' = MapSet(initializedPids, pid, now)
                /\ obsLog' = Append(obsLog, [pid |-> pid, at |-> now, call |-> k])
                /\ IF IsNewConnection(initializedPids, pid, now, connectionTtlMs)
                   THEN /\ hookLog' = Append(hookLog,
                               [pid |-> pid, at |-> now, call |-> k,
                                conn |-> conn[k], state |-> "running",
                                destroys |-> destroyCalls])
                        /\ pc' = [pc EXCEPT ![k] = IF HookAwaited THEN "hook" ELSE "held"]
                   ELSE /\ pc' = [pc EXCEPT ![k] = "held"]
                        /\ UNCHANGED hookLog
                /\ UNCHANGED err
    /\ UNCHANGED << cfgVars, queryVars, lastPruneTime, clockVars, reservedBy, destroyVars,
                    conn, reserveCalls, releaseCalls, issued, ops, outcome >>

\* the identity query rejects: a statement error leaves acquireConnection
IdentityReject(k) ==
    /\ pc[k] = "query"
    /\ pc' = [pc EXCEPT ![k] = "failed"]
    /\ err' = [err EXCEPT ![k] = "query"]
    /\ UNCHANGED << cfgVars, queryVars, clockVars, reservedBy, trackVars, destroyVars,
                    conn, reply, reserveCalls, releaseCalls, issued, ops, outcome >>

\* the hook invocation of call k
HookOf(k) == CHOOSE i \in DOMAIN hookLog : hookLog[i].call = k

\* the hook completes: the handle is returned to the caller
HookResolve(k) ==
    /\ pc[k] = "hook"
    /\ pc' = [pc EXCEPT ![k] = "held"]
    /\ hookLog' = [hookLog EXCEPT ![HookOf(k)].state = "resolved"]
    /\ UNCHANGED << cfgVars, queryVars, clockVars, reservedBy, initializedPids, lastPruneTime,
                    obsLog, destroyVars, conn, err, reply, reserveCalls,
                    releaseCalls, issued, ops, outcome >>

\* the hook throws: its error leaves acquireConnection
HookReject(k) ==
    /\ pc[k] = "hook"
    /\ pc' = [pc EXCEPT ![k] = "failed"]
    /\ err' = [err EXCEPT ![k] = "hook"]
    /\ hookLog' = [hookLog EXCEPT ![HookOf(k)].state = "rejected"]
    /\ UNCHANGED << cfgVars, queryVars, clockVars, reservedBy, initializedPids, lastPruneTime,
                    obsLog, destroyVars, conn, reply, reserveCalls, releaseCalls,
                    issued, ops, outcome >>

(***************************************************************************)
(* releaseConnection(connection): connection.release()                     *)
(***************************************************************************)
\* releaseConnection(connection) that also closed the pool
releaseConnectionAndClose(k) ==
    /\ pc[k] = "held"
    /\ pc' = [pc EXCEPT ![k] = "released"]
    /\ releaseCalls' = [releaseCalls EXCEPT ![k] = @ + 1]
    /\ reservedBy' = [reservedBy EXCEPT ![conn[k]] = 0]
    /\ closeCalls' = closeCalls + 1
    /\ closeArgs' = Append(closeArgs, config.closeOptions)
    /\ UNCHANGED << cfgVars, queryVars, clockVars, trackVars, destroyCalls,
                    destroyPc, atDestroy, instance, born, conn, err, reply,
                    reserveCalls, issued, ops, outcome >>
releaseConnectionPruning(k) ==
    /\ pc[k] = "held"
    /\ pc' = [pc EXCEPT ![k] = "released"]
    /\ releaseCalls' = [releaseCalls EXCEPT ![k] = @ + 1]
    /\ reservedBy' = [reservedBy EXCEPT ![conn[k]] = 0]
    /\ LET pruned == pruneStaleConnections(initializedPids, lastPruneTime,
                                           now, connectionTtlMs)
       IN  /\ initializedPids' = pruned.pids
           /\ lastPruneTime' = pruned.last
    /\ UNCHANGED << cfgVars, queryVars, clockVars, hookLog, obsLog, destroyVars,
                    conn, err, reply, reserveCalls, issued, ops, outcome >>
releaseConnection(k) ==
    /\ pc[k] = "held"
    /\ pc' = [pc EXCEPT ![k] = "released"]
    /\ releaseCalls' = [releaseCalls EXCEPT ![k] = @ + 1]
    /\ reservedBy' = [reservedBy EXCEPT ![conn[k]] = 0]
    /\ UNCHANGED << cfgVars, queryVars, clockVars, trackVars, destroyVars, conn, err, reply,
                    reserveCalls, issued, ops, outcome >>

(***************************************************************************)
(* Operations of the caller on a handle it holds. Each sends one statement *)
(* with unsafe(sql, parameters) and awaits it.                             *)
(***************************************************************************)
NoSettings == [isolationLevel |-> "undefined", accessMode |-> "undefined"]
IsolationLevels ==
    {"read uncommitted", "read committed", "repeatable read", "serializable"}
AccessModes == {"read write", "read only"}
TransactionSettings ==
    [isolationLevel : IsolationLevels \cup {"undefined"},
     accessMode : AccessModes \cup {"undefined"}]

NoQuery == [sql |-> "", parameters |-> << >>]
InsertQuery == [sql |-> "insert into users (name) values ($1)", parameters |-> << "test" >>]
SelectQuery == [sql |-> "select $1::int as x", parameters |-> << "123" >>]
Queries == {InsertQuery, SelectQuery}
PairQuery == [sql |-> "select * from users where id > $1 and name = $2",
              parameters |-> << "7", "test" >>]

\* connection.executeQuery(compiledQuery), up to its await of unsafe()
Send(k, name, settings, query, compiledQuery) ==
    /\ pc[k] = "held"
    /\ Len(ops[k]) < MaxStmts
    /\ ops' = [ops EXCEPT ![k] =
           Append(@, [op |-> name, settings |-> settings, query |-> query])]
    /\ issued' = [issued EXCEPT ![k] =
           Append(@, Stmt(conn[k], compiledQuery, name, Len(ops[k]) + 1))]
    /\ outcome' = [outcome EXCEPT ![k] = "pending"]
    /\ pc' = [pc EXCEPT ![k] = "busy"]
    /\ inflight' = [inflight EXCEPT ![k] = @ + 1]
    /\ UNCHANGED << cfgVars, returned, stream, batches, clockVars, reservedBy,
                    trackVars, destroyVars, conn, err, reply, reserveCalls,
                    releaseCalls >>

\* executeQuery(compiledQuery) called on a handle while an earlier call on it
\* is still awaiting unsafe(): nothing in the handle waits for the earlier one
SendOverlappingFirst(k, name, settings, query, compiledQuery) ==
    /\ pc[k] = "busy"
    /\ inflight[k] < MaxInFlight
    /\ Len(ops[k]) < MaxStmts
    /\ ops' = [ops EXCEPT ![k] =
           Append(@, [op |-> name, settings |-> settings, query |-> query])]
    /\ issued' = [issued EXCEPT ![k] =
           << Stmt(conn[k], compiledQuery, name, Len(ops[k]) + 1) >> \o @]
    /\ inflight' = [inflight EXCEPT ![k] = @ + 1]
    /\ UNCHANGED << cfgVars, returned, stream, batches, clockVars, reservedBy,
                    trackVars, destroyVars, pc, conn, err, reply, reserveCalls,
                    releaseCalls, outcome >>
SendOverlapping(k, name, settings, query, compiledQuery) ==
    /\ pc[k] = "busy"
    /\ inflight[k] < MaxInFlight
    /\ Len(ops[k]) < MaxStmts
    /\ ops' = [ops EXCEPT ![k] =
           Append(@, [op |-> name, settings |-> settings, query |-> query])]
    /\ issued' = [issued EXCEPT ![k] =
           Append(@, Stmt(conn[k], compiledQuery, name, Len(ops[k]) + 1))]
    /\ inflight' = [inflight EXCEPT ![k] = @ + 1]
    /\ UNCHANGED << cfgVars, returned, stream, batches, clockVars, reservedBy,
                    trackVars, destroyVars, pc, conn, err, reply, reserveCalls,
                    releaseCalls, outcome >>

\* CompiledQuery.raw("begin")
BeginQueryStart == CompiledQueryRaw("start transaction")
BeginQuery == CompiledQueryRaw("begin")

\* CompiledQuery.raw("commit")
CommitQueryRollback == CompiledQueryRaw("rollback")
CommitQuery == CompiledQueryRaw("commit")

\* CompiledQuery.raw("rollback")
RollbackQuery == CompiledQueryRaw("rollback")

\* beginTransaction(connection): a second argument is not read
beginTransaction(k, settings) ==
    Send(k, "beginTransaction", settings, NoQuery, BeginQuery)

commitTransaction(k) ==
    Send(k, "commitTransaction", NoSettings, NoQuery, CommitQuery)

rollbackTransaction(k) ==
    Send(k, "rollbackTransaction", NoSettings, NoQuery, RollbackQuery)

executeQuery(k, q) ==
    Send(k, "executeQuery", NoSettings, q, q)

executeQueryOverlapping(k, q) ==
    SendOverlapping(k, "executeQuery", NoSettings, q, q)

(***************************************************************************)
(* streamQuery(compiledQuery): an async generator. The call only makes the *)
(* generator; its first next() runs executeQuery and awaits it, and every  *)
(* next() after that resumes the loop over the rows.                       *)
(***************************************************************************)

\* yield { rows: [row] } for the i-th row
BatchRest(rows, i) == [rows |-> SubSeq(rows, i, Len(rows))]
Batch(rows, i) == [rows |-> << rows[i] >>]

\* the loop over the rows continues from g.pos: the next row is yielded, or
\* the generator completes
Resumed(g) ==
    IF g.pos < Len(g.rows)
    THEN [g EXCEPT !.pos = @ + 1, !.state = "suspended"]
    ELSE [g EXCEPT !.state = "done"]

Yields(g) ==
    IF g.pos < Len(g.rows) THEN << Batch(g.rows, g.pos + 1) >> ELSE << >>

\* the generator has just received the QueryResult of its executeQuery
Received(g, raw) ==
    [g EXCEPT !.rows = QueryResultOf(raw).rows, !.pos = 0]

\* const { rows } = await this.executeQuery(compiledQuery): run by every generator
StreamExecutesOnce(k) == ~returned[k].set
StreamExecutes(k) == TRUE

streamQuery(k, q) ==
    /\ pc[k] = "held"
    /\ Len(ops[k]) < MaxStmts
    /\ ops' = [ops EXCEPT ![k] =
           Append(@, [op |-> "streamQuery", settings |-> NoSettings, query |-> q])]
    /\ stream' = [stream EXCEPT ![k] =
           [NoStream EXCEPT !.state = "created", !.op = Len(ops[k]) + 1, !.query = q]]
    /\ batches' = [batches EXCEPT ![k] = << >>]
    /\ UNCHANGED << cfgVars, clockVars, reservedBy, trackVars, destroyVars,
                    pc, conn, err, reply, reserveCalls, releaseCalls, issued,
                    outcome, returned, inflight >>

\* next() on the generator of handle k
StreamNext(k) ==
    /\ pc[k] = "held"
    /\ stream[k].state \in {"created", "suspended"}
    /\ IF stream[k].state = "created" /\ StreamExecutes(k)
       THEN /\ issued' = [issued EXCEPT ![k] =
                   Append(@, Stmt(conn[k], stream[k].query, "streamQuery", stream[k].op))]
            /\ pc' = [pc EXCEPT ![k] = "busy"]
            /\ outcome' = [outcome EXCEPT ![k] = "pending"]
            /\ stream' = [stream EXCEPT ![k].state = "running"]
            /\ inflight' = [inflight EXCEPT ![k] = @ + 1]
            /\ UNCHANGED batches
       ELSE LET g == IF stream[k].state = "created"
                     THEN Received(stream[k], returned[k].raw)
                     ELSE stream[k]
            IN  /\ stream' = [stream EXCEPT ![k] = Resumed(g)]
                /\ batches' = [batches EXCEPT ![k] = @ \o Yields(g)]
                /\ UNCHANGED << pc, issued, outcome, inflight >>
    /\ UNCHANGED << cfgVars, clockVars, reservedBy, trackVars, destroyVars,
                    conn, err, reply, reserveCalls, releaseCalls, ops, returned >>

\* unsafe() resolves with a raw result: executeQuery returns its QueryResult,
\* to the caller or to the generator that awaits it, which then runs on to its
\* first yield or to its end
StatementResolve(k, raw) ==
    /\ pc[k] = "busy"
    /\ pc' = [pc EXCEPT ![k] = IF inflight[k] = 1 THEN "held" ELSE "busy"]
    /\ inflight' = [inflight EXCEPT ![k] = @ - 1]
    /\ outcome' = [outcome EXCEPT ![k] = "resolved"]
    /\ returned' = [returned EXCEPT ![k] =
           [set |-> TRUE, op |-> issued[k][Len(issued[k]) - inflight[k] + 1].op,
            raw |-> raw, result |-> QueryResultOf(raw)]]
    /\ IF stream[k].state = "running"
       THEN LET g == Received(stream[k], raw)
            IN  /\ stream' = [stream EXCEPT ![k] = Resumed(g)]
                /\ batches' = [batches EXCEPT ![k] = Yields(g)]
       ELSE UNCHANGED << stream, batches >>
    /\ UNCHANGED << cfgVars, clockVars, reservedBy, trackVars, destroyVars,
                    conn, err, reply, reserveCalls, releaseCalls, issued, ops >>

\* unsafe() rejects: the error leaves the operation, the handle stays held; a
\* generator that awaited it ends with that error
StatementRejectRetry(k) ==
    /\ pc[k] = "busy"
    /\ outcome' = [outcome EXCEPT ![k] = "rejected"]
    /\ issued' = [issued EXCEPT ![k] = Append(@, @[Len(@)])]
    /\ UNCHANGED << cfgVars, clockVars, reservedBy, trackVars, destroyVars,
                    pc, conn, err, reply, reserveCalls, releaseCalls, ops,
                    returned, stream, batches, inflight >>
StatementReject(k) ==
    /\ pc[k] = "busy"
    /\ pc' = [pc EXCEPT ![k] = IF inflight[k] = 1 THEN "held" ELSE "busy"]
    /\ inflight' = [inflight EXCEPT ![k] = @ - 1]
    /\ outcome' = [outcome EXCEPT ![k] = "rejected"]
    /\ stream' = [stream EXCEPT ![k].state = IF @ = "running" THEN "threw" ELSE @]
    /\ UNCHANGED << cfgVars, clockVars, reservedBy, trackVars, destroyVars,
                    conn, err, reply, reserveCalls, releaseCalls, issued, ops,
                    returned, batches >>

(***************************************************************************)
(* A handle used after releaseConnection. The handle keeps its reserved    *)
(* client and passes every call on to it; what a released reserved client  *)
(* does with the call is the pool's choice: it refuses it, or it lets it   *)
(* through to the physical connection.                                     *)
(***************************************************************************)

\* executeQuery(compiledQuery) on a released handle: unsafe() is called
executeQueryAfterRelease(k, q, reaches) ==
    /\ pc[k] = "released"
    /\ Len(ops[k]) < MaxStmts
    /\ ops' = [ops EXCEPT ![k] =
           Append(@, [op |-> "executeQuery", settings |-> NoSettings, query |-> q])]
    /\ issued' = [issued EXCEPT ![k] =
           Append(@, Stmt(IF reaches THEN conn[k] ELSE 0, q, "executeQuery",
                          Len(ops[k]) + 1))]
    /\ inflight' = [inflight EXCEPT ![k] = @ + 1]
    /\ outcome' = [outcome EXCEPT ![k] = "pending"]
    /\ UNCHANGED << cfgVars, returned, stream, batches, clockVars, reservedBy,
                    trackVars, destroyVars, pc, conn, err, reply, reserveCalls,
                    releaseCalls >>

\* that unsafe() settles: executeQuery returns or throws
SettleAfterRelease(k, resolved) ==
    /\ pc[k] = "released"
    /\ inflight[k] > 0
    /\ inflight' = [inflight EXCEPT ![k] = @ - 1]
    /\ outcome' = [outcome EXCEPT ![k] = IF resolved THEN "resolved" ELSE "rejected"]
    /\ returned' = [returned EXCEPT ![k] =
           IF resolved
           THEN [set |-> TRUE, op |-> issued[k][Len(issued[k]) - inflight[k] + 1].op,
                 raw |-> PlainResult, result |-> QueryResultOf(PlainResult)]
           ELSE @]
    /\ UNCHANGED << cfgVars, stream, batches, clockVars, reservedBy, trackVars,
                    destroyVars, pc, conn, err, reply, reserveCalls, releaseCalls,
                    issued, ops >>

\* releaseConnection(connection) on a released handle: release() is called
\* again, and frees the connection or not
releaseConnectionAgain(k, frees) ==
    /\ pc[k] = "released"
    /\ releaseCalls[k] < MaxReleases
    /\ releaseCalls' = [releaseCalls EXCEPT ![k] = @ + 1]
    /\ reservedBy' = IF frees THEN [reservedBy EXCEPT ![conn[k]] = 0] ELSE reservedBy
    /\ UNCHANGED << cfgVars, queryVars, clockVars, trackVars, destroyVars, pc, conn,
                    err, reply, reserveCalls, issued, ops, outcome >>

(***************************************************************************)
(* The environment: the wall clock.                                        *)
(***************************************************************************)
Deltas == {PRUNE_INTERVAL_MS, DEFAULT_CONNECTION_TTL_MS}

Tick(d) ==
    /\ ticks < MaxTicks
    /\ now' = now + d
    /\ ticks' = ticks + 1
    /\ UNCHANGED << cfgVars, queryVars, reservedBy, trackVars, callVars, destroyVars >>

\* an acquireConnection call has been made and has not returned or thrown
InFlight == \E k \in Calls : pc[k] \in {"reserve", "query", "hook"}

\* the acquireConnection calls made so far
Started == Cardinality({k \in Calls : pc[k] # "idle"})

(***************************************************************************)
(* destroy(): the map is cleared, close(closeOptions) is called and        *)
(* awaited.                                                                *)
(***************************************************************************)
DestroyCallKeepsMap ==
    /\ destroyCalls < MaxDestroys
    /\ destroyPc # "closing"
    /\ closeCalls' = closeCalls + 1
    /\ destroyCalls' = destroyCalls + 1
    /\ destroyPc' = "closing"
    /\ closeArgs' = Append(closeArgs, config.closeOptions)
    /\ atDestroy' = [quiet |-> ~InFlight, started |-> Started]
    /\ UNCHANGED << cfgVars, queryVars, clockVars, reservedBy, trackVars,
                    callVars, instance, born >>
DestroyCall ==
    /\ destroyCalls < MaxDestroys
    /\ destroyPc # "closing"
    /\ initializedPids' = EmptyMap
    /\ closeCalls' = closeCalls + 1
    /\ destroyCalls' = destroyCalls + 1
    /\ destroyPc' = "closing"
    /\ closeArgs' = Append(closeArgs, config.closeOptions)
    /\ atDestroy' = [quiet |-> ~InFlight, started |-> Started]
    /\ UNCHANGED << cfgVars, queryVars, clockVars, reservedBy, lastPruneTime,
                    hookLog, obsLog, callVars, instance, born >>

\* close() resolves: destroy() returns
DestroyResolve ==
    /\ destroyPc = "closing"
    /\ destroyPc' = "done"
    /\ UNCHANGED << cfgVars, queryVars, clockVars, reservedBy, trackVars, callVars,
                    destroyCalls, closeCalls, closeArgs, atDestroy, instance,
                    born >>

(***************************************************************************)
(* A second driver: after destroy() has returned, new BunPostgresDriver    *)
(* (config) and init() make a fresh driver, whose fields are its own.      *)
(***************************************************************************)

\* readonly #initializedPids = new Map<number, number>()
SharedInitializedPids(old) == old
NewInitializedPids(old) == EmptyMap

Construct ==
    /\ instance < MaxInstances
    /\ destroyPc = "done"
    /\ ~InFlight
    /\ instance' = instance + 1
    /\ initializedPids' = NewInitializedPids(initializedPids)
    /\ lastPruneTime' = 0
    /\ destroyPc' = "idle"
    /\ born' = [hooks |-> Len(hookLog), obs |-> Len(obsLog)]
    /\ UNCHANGED << cfgVars, queryVars, clockVars, reservedBy, hookLog, obsLog,
                    callVars, destroyCalls, closeCalls, closeArgs, atDestroy >>

(***************************************************************************)
(* Sequential use: one caller, one acquire/release cycle at a time, on a   *)
(* pool and a database that do not fail.                                   *)
(***************************************************************************)
Quiet == \A k \in Calls : pc[k] \in {"idle", "released", "failed"}

AllConfigs == Configs(BOOLEAN, {None, Some(0)})

InitSeq == Initialized(AllConfigs)

NextSeq ==
    \/ \E k \in Calls : Quiet /\ AcquireCall(k)
    \/ \E k \in Calls, c \in Conns : ReserveResolve(k, c)
    \/ \E k \in Calls, r \in PgResults : IdentityResolve(k, r)
    \/ \E k \in Calls : HookResolve(k)
    \/ \E k \in Calls : HookReject(k)
    \/ \E k \in Calls : releaseConnection(k)
    \/ \E d \in Deltas : Tick(d)

SpecSeq == InitSeq /\ [][NextSeq]_vars

(***************************************************************************)
(* Concurrent use: up to MaxConcurrent acquireConnection calls interleave  *)
(* at their suspension points with each other and with destroy(); the pool *)
(* and the database may fail, and the identity query may answer anything.  *)
(***************************************************************************)
Init == Initialized(AllConfigs)

Next ==
    \/ \E k \in 1..MaxConcurrent : AcquireCall(k)
    \/ \E k \in Calls : ReserveReject(k)
    \/ \E k \in Calls, c \in Conns : ReserveResolve(k, c)
    \/ \E k \in Calls, r \in PgResults \cup {NoRow} : IdentityResolve(k, r)
    \/ \E k \in Calls : IdentityReject(k)
    \/ \E k \in Calls : HookResolve(k)
    \/ \E k \in Calls : HookReject(k)
    \/ \E k \in Calls : releaseConnection(k)
    \/ \E d \in Deltas : Tick(d)
    \/ DestroyCall
    \/ DestroyResolve

Spec == Init /\ [][Next]_vars

(***************************************************************************)
(* Transactions: a caller acquires a handle, issues up to MaxStmts         *)
(* transaction commands and queries through it, and releases it.           *)
(***************************************************************************)
InitTx == Initialized(Configs(BOOLEAN, {None}))

NextTx ==
    \/ \E k \in 1..MaxTxHandles : Quiet /\ AcquireCall(k)
    \/ \E k \in Calls, c \in Conns : ReserveResolve(k, c)
    \/ \E k \in Calls, r \in PgResults : IdentityResolve(k, r)
    \/ \E k \in Calls : HookResolve(k)
    \/ \E k \in Calls, settings \in TransactionSettings : beginTransaction(k, settings)
    \/ \E k \in Calls : commitTransaction(k)
    \/ \E k \in Calls : rollbackTransaction(k)
    \/ \E k \in Calls, q \in Queries : executeQuery(k, q)
    \/ \E k \in Calls : StatementResolve(k, PlainResult)
    \/ \E k \in Calls : StatementReject(k)
    \/ \E k \in Calls : releaseConnection(k)

SpecTx == InitTx /\ [][NextTx]_vars

(***************************************************************************)
(* Teardown: acquisitions, releases and destroy() interleave; once         *)
(* destroy() has returned a fresh driver may be constructed and used.      *)
(***************************************************************************)
CloseOptions == {None, Some(5)}

InitTeardown ==
    Initialized({MakeConfig(h, TRUE, AbsentUrl, AbsentOptions, c) :
                    h \in BOOLEAN, c \in CloseOptions})

NextTeardown ==
    \/ \E k \in 1..MaxTeardownCalls : AcquireCall(k)
    \/ \E k \in Calls, c \in Conns : ReserveResolve(k, c)
    \/ \E k \in Calls, r \in PgResults : IdentityResolve(k, r)
    \/ \E k \in Calls : HookResolve(k)
    \/ \E k \in Calls : releaseConnection(k)
    \/ DestroyCall
    \/ DestroyResolve
    \/ Construct

SpecTeardown == InitTeardown /\ [][NextTeardown]_vars

(***************************************************************************)
(* Initialization: a driver constructed with any combination of client,    *)
(* url and clientOptions is initialized.                                   *)
(***************************************************************************)
PrimaryUrl == "postgres://primary@localhost/primary"
SecondaryUrl == "postgres://secondary@localhost/secondary"

OptionKeys == {"url", "max", "maxLifetime", "onconnect"}

OptionValue(key) ==
    CASE key = "url" -> JsStr(SecondaryUrl)
      [] key = "max" -> JsNum(15)
      [] key = "maxLifetime" -> JsNum(0)
      [] key = "onconnect" -> JsFn(1)

\* the clientOptions objects: every choice of keys, the empty object included
OptionObjects == {[x \in keys |-> OptionValue(x)] : keys \in SUBSET OptionKeys}

UrlInputs == {AbsentUrl, Url(""), Url(PrimaryUrl)}
ClientOptionsInputs == {AbsentOptions} \cup {PresentOptions(o) : o \in OptionObjects}

InitConfigs ==
    {MakeConfig(h, g, u, o, None) :
        h \in BOOLEAN, g \in BOOLEAN, u \in UrlInputs, o \in ClientOptionsInputs}

InitInit ==
    /\ Constructed(InitConfigs)
    /\ client = Uninitialized

NextInit == InitCall

SpecInit == InitInit /\ [][NextInit]_vars

(***************************************************************************)
(* Queries: without a hook, a caller acquires a handle, executes and       *)
(* streams up to MaxStmts queries through it against a database that       *)
(* answers with any rows, and releases it.                                 *)
(***************************************************************************)
QueryInputs == {SelectQuery, PairQuery}

\* raw results of a SELECT and of an INSERT ... RETURNING, with any rows
RowResults == [rows : RowSeqs, command : {JsStr("SELECT"), JsStr("INSERT")},
               count : {JsNum(3)}]

InitQuery == Initialized(Configs({FALSE}, {None}))

NextQuery ==
    \/ \E k \in 1..MaxTxHandles : Quiet /\ AcquireCall(k)
    \/ \E k \in Calls, c \in Conns : ReserveResolve(k, c)
    \/ \E k \in Calls, q \in QueryInputs : executeQuery(k, q)
    \/ \E k \in Calls, q \in QueryInputs : streamQuery(k, q)
    \/ \E k \in Calls : StreamNext(k)
    \/ \E k \in Calls, raw \in RowResults : StatementResolve(k, raw)
    \/ \E k \in Calls : StatementReject(k)
    \/ \E k \in Calls : releaseConnection(k)

SpecQuery == InitQuery /\ [][NextQuery]_vars

(***************************************************************************)
(* Results: without a hook, a caller acquires a handle and executes up to  *)
(* MaxStmts queries through it against a database that may answer any raw *)
(* result, and releases it.                                                *)
(***************************************************************************)
InitResult == Initialized(Configs({FALSE}, {None}))

NextResult ==
    \/ \E k \in 1..MaxTxHandles : Quiet /\ AcquireCall(k)
    \/ \E k \in Calls, c \in Conns : ReserveResolve(k, c)
    \/ \E k \in Calls, q \in QueryInputs : executeQuery(k, q)
    \/ \E k \in Calls, raw \in RawResults : StatementResolve(k, raw)
    \/ \E k \in Calls : StatementReject(k)
    \/ \E k \in Calls : releaseConnection(k)

SpecResult == InitResult /\ [][NextResult]_vars

(***************************************************************************)
(* Identity answers: sequential use with a hook, against a backend whose   *)
(* identity query may answer anything.                                     *)
(***************************************************************************)
InitIdentity == Initialized(Configs({TRUE}, {None}))

NextIdentity ==
    \/ \E k \in Calls : Quiet /\ AcquireCall(k)
    \/ \E k \in Calls, c \in Conns : ReserveResolve(k, c)
    \/ \E k \in Calls, r \in IdentityResults : IdentityResolve(k, r)
    \/ \E k \in Calls : HookResolve(k)
    \/ \E k \in Calls : releaseConnection(k)

SpecIdentity == InitIdentity /\ [][NextIdentity]_vars

(***************************************************************************)
(* Pruning: sequential acquire/release cycles with a hook, on a clock that *)
(* also advances by less than the prune interval.                          *)
(***************************************************************************)
PruneDeltas == {PRUNE_INTERVAL_MS \div 2, PRUNE_INTERVAL_MS}

InitPrune == Initialized(Configs({TRUE}, {None, Some(0)}))

NextPrune ==
    \/ \E k \in Calls : Quiet /\ AcquireCall(k)
    \/ \E k \in Calls, c \in Conns : ReserveResolve(k, c)
    \/ \E k \in Calls, r \in PgResults : IdentityResolve(k, r)
    \/ \E k \in Calls : HookResolve(k)
    \/ \E k \in Calls : releaseConnection(k)
    \/ \E d \in PruneDeltas : Tick(d)

SpecPrune == InitPrune /\ [][NextPrune]_vars

(***************************************************************************)
(* The whole driver: a constructed driver is initialized, then handles are *)
(* acquired one at a time, used for transaction commands, queries and      *)
(* streams, and released; destroy() may be called at any point after       *)
(* init().                                                                 *)
(***************************************************************************)
FrameConfigs ==
    Configs(BOOLEAN, {None, Some(0), Some(1800)})
        \cup {MakeConfig(h, TRUE, AbsentUrl,
                         PresentOptions([x \in {"max"} |-> JsNum(15)]), None) :
                  h \in BOOLEAN}

\* init() has run: this.#client is set
HasClient == client # Uninitialized

\* the caller of this scenario makes up to MaxFrameStmts calls on a handle
FrameOp(k) == HasClient /\ Len(ops[k]) < MaxFrameStmts

InitFrame == Constructed(FrameConfigs) /\ client = Uninitialized

NextFrame ==
    \/ InitCall
    \/ \E k \in 1..MaxConcurrent : HasClient /\ Quiet /\ AcquireCall(k)
    \/ \E k \in Calls, c \in Conns : HasClient /\ ReserveResolve(k, c)
    \/ \E k \in Calls, r \in PgResults : HasClient /\ IdentityResolve(k, r)
    \/ \E k \in Calls : HasClient /\ HookResolve(k)
    \/ \E k \in Calls : FrameOp(k) /\ beginTransaction(k, NoSettings)
    \/ \E k \in Calls : FrameOp(k) /\ commitTransaction(k)
    \/ \E k \in Calls : FrameOp(k) /\ rollbackTransaction(k)
    \/ \E k \in Calls : FrameOp(k) /\ executeQuery(k, SelectQuery)
    \/ \E k \in Calls : FrameOp(k) /\ streamQuery(k, SelectQuery)
    \/ \E k \in Calls : HasClient /\ StreamNext(k)
    \/ \E k \in Calls : HasClient /\ StatementResolve(k, PlainResult)
    \/ \E k \in Calls : HasClient /\ StatementReject(k)
    \/ \E k \in Calls : HasClient /\ releaseConnection(k)
    \/ HasClient /\ DestroyCall
    \/ HasClient /\ DestroyResolve

SpecFrame == InitFrame /\ [][NextFrame]_vars

(***************************************************************************)
(* A caller that does not await: executeQuery is called on a held handle   *)
(* while earlier calls on it are in flight.                                *)
(***************************************************************************)
InitPipeline == Initialized(Configs(BOOLEAN, {None}))

NextPipeline ==
    \/ \E k \in 1..MaxTxHandles : Quiet /\ AcquireCall(k)
    \/ \E k \in Calls, c \in Conns : ReserveResolve(k, c)
    \/ \E k \in Calls, r \in PgResults : IdentityResolve(k, r)
    \/ \E k \in Calls : HookResolve(k)
    \/ \E k \in Calls, q \in Queries : executeQuery(k, q)
    \/ \E k \in Calls, q \in Queries : executeQueryOverlapping(k, q)
    \/ \E k \in Calls : StatementResolve(k, PlainResult)
    \/ \E k \in Calls : StatementReject(k)
    \/ \E k \in Calls : releaseConnection(k)

SpecPipeline == InitPipeline /\ [][NextPipeline]_vars

(***************************************************************************)
(* A caller that keeps using a handle it has released, while the next      *)
(* handle is acquired and used.                                            *)
(***************************************************************************)
InitReuse == Initialized(Configs({FALSE}, {None}))

NextReuse ==
    \/ \E k \in 1..MaxConcurrent : Quiet /\ AcquireCall(k)
    \/ \E k \in Calls, c \in Conns : ReserveResolve(k, c)
    \/ \E k \in Calls : FrameOp(k) /\ executeQuery(k, SelectQuery)
    \/ \E k \in Calls : StatementResolve(k, PlainResult)
    \/ \E k \in Calls : StatementReject(k)
    \/ \E k \in Calls : releaseConnection(k)
    \/ \E k \in Calls, reaches \in BOOLEAN :
           Len(ops[k]) <= MaxFrameStmts
               /\ executeQueryAfterRelease(k, InsertQuery, reaches)
    \/ \E k \in Calls, resolved \in BOOLEAN : SettleAfterRelease(k, resolved)
    \/ \E k \in Calls, frees \in BOOLEAN : releaseConnectionAgain(k, frees)

SpecReuse == InitReuse /\ [][NextReuse]_vars

(***************************************************************************)
(* What the logs say.                                                      *)
(***************************************************************************)
HookCount(p) == Cardinality({i \in DOMAIN hookLog : hookLog[i].pid = p})
HooksOf(k) == {i \in DOMAIN hookLog : hookLog[i].call = k}
Observed == {obsLog[i].pid : i \in DOMAIN obsLog}
ObsOf(p) == SelectSeq(obsLog, LAMBDA o : o.pid = p)
ObsBy(k) == {i \in DOMAIN obsLog : obsLog[i].call = k}

\* every observation of PID p came no more than the TTL after the one before
WithinTtl(p) ==
    LET s == ObsOf(p)
    IN  \A i \in 1..(Len(s) - 1) : s[i + 1].at - s[i].at <= connectionTtlMs

\* the statements acquireConnection itself sent on the connection of call k
AcquireStmts(k) == SelectSeq(issued[k], LAMBDA st : st.by = "acquireConnection")

\* the PID that call k read from the answer to its identity query
PidRead(k) == RowPid(reply[k][1])

\* acquireConnection of call k failed with the configuration error and left no trace
Rejected(k) ==
    /\ pc[k] = "failed"
    /\ err[k] = "pid"
    /\ HooksOf(k) = {}
    /\ ObsBy(k) = {}

(***************************************************************************)
(* C1, as claimed: with a hook, sequential acquire/release cycles invoke   *)
(* the hook exactly once for each PID they observe, however many cycles    *)
(* there are and whenever they happen. Stated for the default TTL and for  *)
(* cycles that all succeed.                                                *)
(***************************************************************************)
C1_AsClaimed ==
    (/\ config.onCreateConnection
     /\ ~config.maxLifetime.set
     /\ \A k \in Calls : err[k] = "none")
        => \A p \in Observed : HookCount(p) = 1

(***************************************************************************)
(* C1, amended: with a hook, sequential acquire/release cycles in which    *)
(* each observation of a PID comes no more than connectionTtlMs after the  *)
(* previous observation of that PID invoke the hook exactly once for that  *)
(* PID: once for a fixed PID, once more when the PID changes, and never    *)
(* again for further cycles with the new PID.                              *)
(***************************************************************************)
C1_HookOncePerPidWithinTtl ==
    config.onCreateConnection
        => \A p \in Observed : WithinTtl(p) => HookCount(p) = 1

\* four cycles done, two on each of two PIDs, with time passing between them
C1_Witness ==
    /\ config.onCreateConnection
    /\ \A k \in 1..4 : pc[k] = "released"
    /\ \E p, q \in Observed :
        /\ p # q
        /\ Len(ObsOf(p)) >= 2 /\ Len(ObsOf(q)) >= 2
        /\ ObsOf(p)[1].at < ObsOf(p)[2].at
        /\ ObsOf(p)[2].at <= ObsOf(q)[1].at
        /\ WithinTtl(p) /\ WithinTtl(q)
        /\ HookCount(p) = 1 /\ HookCount(q) = 1

(***************************************************************************)
(* C2: without a hook acquireConnection never sends the identity query,    *)
(* nor any other statement, on the reserved connection, over any number of *)
(* acquire/release cycles.                                                 *)
(***************************************************************************)
C2_NoIdentityQueryWithoutHook ==
    ~config.onCreateConnection
        => \A k \in Calls :
            /\ AcquireStmts(k) = << >>
            /\ \A i \in DOMAIN issued[k] : issued[k][i].sql # IDENTITY_SQL
            /\ reply[k] = << >>

C2_Witness ==
    /\ ~config.onCreateConnection
    /\ \A k \in 1..3 : pc[k] = "released" /\ conn[k] # 0

(***************************************************************************)
(* C3, as claimed: with a hook, an identity answer that holds no positive  *)
(* integer (no row, no pid, a non-number, zero, a negative or a            *)
(* non-integer number) makes acquireConnection fail with the configuration *)
(* error, without invoking the hook and without a map entry.               *)
(***************************************************************************)
C3_AsClaimed ==
    \A k \in Calls :
        (reply[k] # << >> /\ ~IsPositiveInteger(PidRead(k))) => Rejected(k)

(***************************************************************************)
(* C3, amended: with a hook, an identity answer that holds no value of     *)
(* type number (no row, no pid, a non-number) makes acquireConnection fail *)
(* with the configuration error, without invoking the hook and without a   *)
(* map entry; every value of type number, zero, negative and non-integer   *)
(* ones included, is accepted and recorded as a PID.                       *)
(***************************************************************************)
C3_NonNumberRejected ==
    \A k \in Calls :
        reply[k] # << >> =>
            IF PidRead(k).type = "number"
            THEN err[k] # "pid" /\ ObsBy(k) # {}
            ELSE Rejected(k)

\* an empty answer and a string pid have each been refused, a number accepted
C3_Witness ==
    \E k1, k2, k3 \in Calls :
        /\ reply[k1] = << NoRow >> /\ Rejected(k1)
        /\ reply[k2] = << Row(Str1000) >> /\ Rejected(k2)
        /\ reply[k3] = << Row(Num(1000, 1)) >> /\ pc[k3] = "released"

(***************************************************************************)
(* C4: when reserve() rejects, acquireConnection fails with that error;    *)
(* reserve() was called once and is not called again, no statement was     *)
(* sent, the hook is not invoked and the PID map and the last-prune time   *)
(* are left as they were.                                                  *)
(***************************************************************************)
C4_ReserveFailure ==
    [][\A k \in Calls :
        /\ reserveCalls'[k] <= 1
        /\ (pc[k] = "reserve" /\ pc'[k] = "failed") =>
            /\ err'[k] = "reserve"
            /\ reserveCalls'[k] = 1
            /\ issued'[k] = << >>
            /\ conn'[k] = 0
            /\ hookLog' = hookLog
            /\ initializedPids' = initializedPids
            /\ lastPruneTime' = lastPruneTime
        /\ (err[k] = "reserve") => (pc'[k] = "failed" /\ err'[k] = "reserve")]_vars

\* a reserve() failure while the map holds an entry
C4_Witness ==
    \E k \in Calls :
        /\ err[k] = "reserve"
        /\ pc[k] = "failed"
        /\ initializedPids # EmptyMap

(***************************************************************************)
(* C5: the hook is invoked with the handle of the call that found the PID  *)
(* new, bound to the connection that call reserved and queried, and that   *)
(* handle is not returned to the caller before the hook has completed.     *)
(***************************************************************************)
C5_HookBeforeReturn ==
    \A i \in DOMAIN hookLog :
        LET h == hookLog[i]
        IN  /\ h.conn # 0
            /\ h.conn = conn[h.call]
            /\ h.pid = PidRead(h.call)
            /\ pc[h.call] \in {"held", "released"} => h.state = "resolved"
            /\ h.state = "running" => pc[h.call] = "hook"

\* a handle returned after its hook completed
C5_Witness ==
    \E i \in DOMAIN hookLog :
        /\ hookLog[i].state = "resolved"
        /\ pc[hookLog[i].call] = "held"

(***************************************************************************)
(* C6: with a hook, every acquireConnection whose reserve() succeeded has  *)
(* sent exactly one identity query on the reserved connection, whether the *)
(* PID turned out new or not.                                              *)
(***************************************************************************)
C6_OneIdentityQuery ==
    config.onCreateConnection
        => \A k \in Calls :
            conn[k] # 0 =>
                /\ Len(AcquireStmts(k)) = 1
                /\ AcquireStmts(k)[1].sql = IDENTITY_SQL

\* one acquisition that invoked the hook and one that did not
C6_Witness ==
    /\ config.onCreateConnection
    /\ \E k1, k2 \in Calls :
        /\ pc[k1] = "released" /\ HooksOf(k1) # {}
        /\ pc[k2] = "released" /\ HooksOf(k2) = {} /\ ObsBy(k2) # {}
        /\ Len(AcquireStmts(k1)) = 1 /\ Len(AcquireStmts(k2)) = 1

(***************************************************************************)
(* What the statement log of a handle says.                                *)
(***************************************************************************)
\* the statements sent for the i-th operation of the caller on handle k
StmtsOf(k, i) == SelectSeq(issued[k], LAMBDA st : st.op = i)

\* the statements the caller's operations sent on handle k
CallerStmts(k) == SelectSeq(issued[k], LAMBDA st : st.op > 0)

SqlOf(stmts) == [j \in DOMAIN stmts |-> stmts[j].sql]
OpNames(k) == [j \in DOMAIN ops[k] |-> ops[k][j].op]

\* the text the specification gives for beginning a transaction
ClaimedBeginText(settings) ==
    IF settings = NoSettings
    THEN "begin"
    ELSE "start transaction"
         \o (IF settings.isolationLevel # "undefined"
             THEN " isolation level " \o settings.isolationLevel ELSE "")
         \o (IF settings.accessMode # "undefined"
             THEN " " \o settings.accessMode ELSE "")

(***************************************************************************)
(* C7, as claimed: beginTransaction with an isolation level or an access   *)
(* mode set sends exactly one statement, "start transaction" followed by   *)
(* " isolation level {level}" when the level is set and " {mode}" when the *)
(* mode is set.                                                            *)
(***************************************************************************)
C7_AsClaimed ==
    \A k \in Calls : \A i \in DOMAIN ops[k] :
        (ops[k][i].op = "beginTransaction" /\ ops[k][i].settings # NoSettings)
            => /\ Len(StmtsOf(k, i)) = 1
               /\ StmtsOf(k, i)[1].sql = ClaimedBeginText(ops[k][i].settings)

(***************************************************************************)
(* C8: beginTransaction with neither isolation level nor access mode set   *)
(* sends exactly one statement on the handle, with the text "begin".       *)
(***************************************************************************)
C8_BeginDefault ==
    \A k \in Calls : \A i \in DOMAIN ops[k] :
        (ops[k][i].op = "beginTransaction" /\ ops[k][i].settings = NoSettings)
            => /\ Len(StmtsOf(k, i)) = 1
               /\ StmtsOf(k, i)[1].sql = "begin"
               /\ StmtsOf(k, i)[1].params = << >>

\* a default begin has been sent and has returned
C8_Witness ==
    \E k \in Calls :
        /\ Len(ops[k]) = 1
        /\ ops[k][1].op = "beginTransaction"
        /\ ops[k][1].settings = NoSettings
        /\ outcome[k] = "resolved"

(***************************************************************************)
(* C9: commitTransaction sends exactly one statement "commit" and          *)
(* rollbackTransaction exactly one statement "rollback" on the connection  *)
(* of the handle, in the order of the calls, so that a default begin, a    *)
(* commit and a rollback send "begin", "commit", "rollback".               *)
(***************************************************************************)
C9_CommitRollback ==
    \A k \in Calls :
        /\ \A i \in DOMAIN ops[k] :
            /\ ops[k][i].op = "commitTransaction"
                => SqlOf(StmtsOf(k, i)) = << "commit" >>
            /\ ops[k][i].op = "rollbackTransaction"
                => SqlOf(StmtsOf(k, i)) = << "rollback" >>
        /\ \A j \in DOMAIN CallerStmts(k) : CallerStmts(k)[j].op = j
        /\ (/\ OpNames(k) = << "beginTransaction", "commitTransaction", "rollbackTransaction" >>
            /\ ops[k][1].settings = NoSettings)
            => SqlOf(CallerStmts(k)) = << "begin", "commit", "rollback" >>

\* begin, commit and rollback have been called in that order and have returned
C9_Witness ==
    \E k \in Calls :
        /\ ~config.onCreateConnection
        /\ OpNames(k) = << "beginTransaction", "commitTransaction", "rollbackTransaction" >>
        /\ ops[k][1].settings = NoSettings
        /\ outcome[k] = "resolved"
        /\ SqlOf(issued[k]) = << "begin", "commit", "rollback" >>

(***************************************************************************)
(* C10, as claimed: without a hook, acquire, begin a serializable read     *)
(* write transaction, execute a mutation, commit and release send exactly  *)
(* "start transaction isolation level serializable read write", the        *)
(* mutation and "commit" on the connection.                                *)
(***************************************************************************)
SerializableReadWrite ==
    [isolationLevel |-> "serializable", accessMode |-> "read write"]

C10_AsClaimed ==
    \A k \in Calls :
        (/\ ~config.onCreateConnection
         /\ pc[k] = "released"
         /\ OpNames(k) = << "beginTransaction", "executeQuery", "commitTransaction" >>
         /\ ops[k][1].settings = SerializableReadWrite
         /\ ops[k][2].query = InsertQuery)
            => SqlOf(issued[k]) =
                   << "start transaction isolation level serializable read write",
                      InsertQuery.sql, "commit" >>

(***************************************************************************)
(* C11: executeQuery returns a numAffectedRows if and only if the command  *)
(* of the raw result is exactly INSERT, UPDATE, DELETE or MERGE and its    *)
(* count is defined, and then it is the count as a big integer; for SELECT,*)
(* for any other command and for an undefined count it is undefined.       *)
(***************************************************************************)
C11_NumAffectedRows ==
    \A k \in Calls :
        returned[k].set =>
            LET raw == returned[k].raw
                n == returned[k].result.numAffectedRows
                counted ==
                    /\ raw.command.type = "string"
                    /\ raw.command.str \in {"INSERT", "UPDATE", "DELETE", "MERGE"}
                    /\ raw.count.type = "number"
            IN  /\ (n.type # "undefined") <=> counted
                /\ counted => (n.type = "bigint" /\ n.num = raw.count.num)

\* a MERGE that affected no row has returned a numAffectedRows of zero
C11_Witness ==
    \E k \in Calls :
        /\ returned[k].set
        /\ returned[k].raw.command = JsStr("MERGE")
        /\ returned[k].raw.count = JsNum(0)
        /\ returned[k].result.numAffectedRows = JsBigInt(0)

(***************************************************************************)
(* C12: the rows executeQuery returns are the rows of the raw result, the  *)
(* same elements in the same order, whatever the command and the count,    *)
(* the empty sequence of a mutation that returns no rows included.         *)
(***************************************************************************)
C12_RowsAsReceived ==
    \A k \in Calls :
        returned[k].set =>
            LET got == returned[k].result.rows
                sent == returned[k].raw.rows
            IN  /\ Len(got) = Len(sent)
                /\ \A i \in 1..Len(sent) : got[i] = sent[i]

\* an INSERT that returned two rows has returned them in their order
C12_Witness ==
    \E k \in Calls :
        /\ returned[k].set
        /\ returned[k].raw.command = JsStr("INSERT")
        /\ returned[k].raw.rows = << "row2", "row1" >>
        /\ returned[k].result.rows = << "row2", "row1" >>

(***************************************************************************)
(* C13: each executeQuery(compiledQuery) on a handle makes exactly one     *)
(* unsafe(sql, parameters) call, on the connection reserved for that       *)
(* handle, with the SQL text and the parameters of the compiled query      *)
(* unchanged and in order.                                                 *)
(***************************************************************************)
C13_OneUnsafePerExecute ==
    \A k \in Calls : \A i \in DOMAIN ops[k] :
        ops[k][i].op = "executeQuery" =>
            /\ Len(StmtsOf(k, i)) = 1
            /\ StmtsOf(k, i)[1].sql = ops[k][i].query.sql
            /\ StmtsOf(k, i)[1].params = ops[k][i].query.parameters
            /\ StmtsOf(k, i)[1].on = conn[k]
            /\ conn[k] \in Conns

\* a query with two parameters has been executed and has returned
C13_Witness ==
    \E k \in Calls :
        /\ Len(ops[k]) >= 1
        /\ ops[k][1].op = "executeQuery"
        /\ ops[k][1].query = PairQuery
        /\ returned[k].set /\ returned[k].op = 1
        /\ StmtsOf(k, 1)[1].params = << "7", "test" >>

(***************************************************************************)
(* C14: iterating streamQuery(q) yields one batch for each row of the      *)
(* executed result, each batch holding exactly that one row, in the order  *)
(* of the rows, and then ends; the batches together are the rows that      *)
(* executeQuery(q) returned, none for an empty result.                     *)
(***************************************************************************)
C14_OneBatchPerRow ==
    \A k \in Calls :
        stream[k].state \in {"suspended", "done"} =>
            /\ Len(batches[k]) = stream[k].pos
            /\ \A i \in 1..Len(batches[k]) :
                /\ Len(batches[k][i].rows) = 1
                /\ batches[k][i].rows[1] = stream[k].rows[i]
            /\ stream[k].state = "done" => Len(batches[k]) = Len(stream[k].rows)
            /\ (returned[k].set /\ returned[k].op = stream[k].op)
                => stream[k].rows = returned[k].raw.rows

\* a result of two rows has been streamed to its end
C14_Witness ==
    \E k \in Calls :
        /\ stream[k].state = "done"
        /\ returned[k].op = stream[k].op
        /\ returned[k].raw.rows = << "row2", "row1" >>
        /\ batches[k] = << [rows |-> << "row2" >>], [rows |-> << "row1" >>] >>

(***************************************************************************)
(* C15: a streamQuery sequence is not restartable. The first next() of a   *)
(* streamQuery call executes the query once on the connection, no later    *)
(* next() of that call executes anything, so that a call executes at most  *)
(* once however many batches are consumed, and each fresh call that is     *)
(* iterated executes the query again.                                      *)
(***************************************************************************)
C15_ExecutedOncePerCall ==
    [][\A k \in Calls :
        /\ \A i \in DOMAIN ops'[k] :
            ops'[k][i].op = "streamQuery" =>
                Len(SelectSeq(issued'[k], LAMBDA st : st.op = i)) <= 1
        /\ (stream[k].state = "created" /\ stream'[k].state \notin {"created", "none"}
            /\ stream'[k].op = stream[k].op)
            => issued'[k] = Append(issued[k],
                   [sql |-> stream[k].query.sql,
                    params |-> stream[k].query.parameters,
                    by |-> "streamQuery", op |-> stream[k].op, on |-> conn[k]])
        /\ (stream[k].state = "suspended" /\ stream'[k] # stream[k]
            /\ stream'[k].op = stream[k].op)
            => issued'[k] = issued[k]]_vars

\* two streamQuery calls of one query have each been iterated, the second to its end
C15_Witness ==
    \E k \in Calls :
        /\ Len(ops[k]) = 2
        /\ ops[k][1].op = "streamQuery" /\ ops[k][2].op = "streamQuery"
        /\ ops[k][1].query = ops[k][2].query
        /\ Len(StmtsOf(k, 1)) = 1 /\ Len(StmtsOf(k, 2)) = 1
        /\ stream[k].state = "done"
        /\ Len(batches[k]) = 2

(***************************************************************************)
(* C16: releaseConnection(handle) calls release() exactly once on the      *)
(* connection reserved for the handle, sends no SQL and does not close the *)
(* pool; close() is called on the pool only by destroy().                  *)
(***************************************************************************)
C16_ReleaseOnly ==
    [][\A k \in Calls :
        /\ (pc[k] = "held" /\ pc'[k] = "released") =>
            /\ releaseCalls'[k] = releaseCalls[k] + 1
            /\ releaseCalls'[k] = 1
            /\ reservedBy[conn[k]] = k /\ reservedBy'[conn[k]] = 0
            /\ issued' = issued
            /\ closeCalls' = closeCalls
        /\ releaseCalls'[k] # releaseCalls[k] => (pc[k] = "held" /\ pc'[k] = "released")
        /\ closeCalls' # closeCalls =>
            (destroyCalls' = destroyCalls + 1 /\ closeCalls' = closeCalls + 1)]_vars

\* a handle has been released while the pool is still open
C16_Witness ==
    \E k \in Calls :
        /\ pc[k] = "released"
        /\ releaseCalls[k] = 1
        /\ closeCalls = 0
        /\ \E j \in Calls : pc[j] = "held"

(***************************************************************************)
(* C17: destroy() empties the PID map and calls close() on the pool        *)
(* exactly once, with the configured closeOptions; when no acquisition is  *)
(* in flight while destroy() runs, the PID map is empty when it returns.   *)
(***************************************************************************)
C17_Destroy ==
    [][/\ destroyCalls' # destroyCalls =>
            /\ destroyCalls' = destroyCalls + 1
            /\ initializedPids' = EmptyMap
            /\ closeCalls' = closeCalls + 1
            /\ closeArgs' = Append(closeArgs, config.closeOptions)
       /\ closeCalls' = destroyCalls'
       /\ (/\ destroyPc = "closing" /\ destroyPc' = "done"
           /\ atDestroy.quiet
           /\ atDestroy.started = Started)
            => initializedPids' = EmptyMap]_vars

\* destroy() of a driver that had recorded a PID has returned
C17_Witness ==
    /\ destroyPc = "done"
    /\ obsLog # << >>
    /\ atDestroy.quiet /\ atDestroy.started = Started
    /\ closeArgs = << Some(5) >>
    /\ closeCalls = 1
    /\ initializedPids = EmptyMap

(***************************************************************************)
(* C18: tracking state does not outlive a driver. A driver constructed     *)
(* after another was destroyed starts with an empty PID map, and when it   *)
(* observes a PID, one the destroyed driver had recorded included, it      *)
(* invokes the hook for it again.                                          *)
(***************************************************************************)
C18_ColdStart ==
    instance > 1 =>
        /\ Len(obsLog) = born.obs => initializedPids = EmptyMap
        /\ \A i \in (born.obs + 1)..Len(obsLog) :
            \E j \in (born.hooks + 1)..Len(hookLog) :
                /\ hookLog[j].pid = obsLog[i].pid
                /\ hookLog[j].at <= obsLog[i].at

\* the second driver has invoked the hook for a PID the first had recorded
C18_Witness ==
    /\ instance = 2
    /\ \E i \in 1..born.hooks : \E j \in (born.hooks + 1)..Len(hookLog) :
        /\ hookLog[i].pid = hookLog[j].pid
        /\ hookLog[j].state = "resolved"
        /\ hookLog[j].at - hookLog[i].at <= connectionTtlMs

(***************************************************************************)
(* C19: when the top-level url and clientOptions are both set, the client  *)
(* is constructed from an options object whose url is the top-level url,   *)
(* never clientOptions.url, whether or not clientOptions has a url.        *)
(***************************************************************************)
C19_UrlPrecedence ==
    (/\ client # Uninitialized
     /\ ~config.client
     /\ config.url.set /\ config.url.val # ""
     /\ config.clientOptions.set)
        => /\ client.type = "options"
           /\ "url" \in DOMAIN client.options
           /\ client.options["url"].type = "string"
           /\ client.options["url"].str = config.url.val
           /\ client.options["url"].str # SecondaryUrl

\* a client has been constructed from a url and clientOptions with another url
C19_Witness ==
    /\ client.type = "options"
    /\ config.url = Url(PrimaryUrl)
    /\ config.clientOptions.set
    /\ "url" \in DOMAIN config.clientOptions.obj
    /\ config.clientOptions.obj["url"] = JsStr(SecondaryUrl)
    /\ client.options["url"] = JsStr(PrimaryUrl)

(***************************************************************************)
(* C20: when the top-level url and clientOptions are merged, every key of  *)
(* clientOptions other than url is in the options object with the same     *)
(* value, a callback being the same function, and the options object has   *)
(* no key besides url and those keys.                                      *)
(***************************************************************************)
C20_OtherKeysPassThrough ==
    (/\ client # Uninitialized
     /\ ~config.client
     /\ config.url.set /\ config.url.val # ""
     /\ config.clientOptions.set)
        => LET given == config.clientOptions.obj
               others == {x \in DOMAIN given : x # "url"}
           IN  /\ DOMAIN client.options = others \cup {"url"}
               /\ \A x \in others :
                   /\ client.options[x].type = given[x].type
                   /\ client.options[x].num = given[x].num
                   /\ client.options[x].str = given[x].str

\* a pool size, a lifetime and a callback have been merged with the url
C20_Witness ==
    /\ client.type = "options"
    /\ config.url = Url(PrimaryUrl)
    /\ config.clientOptions.set
    /\ DOMAIN config.clientOptions.obj = OptionKeys
    /\ client.options["max"] = JsNum(15)
    /\ client.options["maxLifetime"] = JsNum(0)
    /\ client.options["onconnect"] = JsFn(1)

(***************************************************************************)
(* C21: when the top-level url is absent and clientOptions is present, the *)
(* client is constructed from an options object that has exactly the keys  *)
(* and the values of clientOptions, its url included when it has one.      *)
(***************************************************************************)
C21_OptionsVerbatim ==
    (/\ client # Uninitialized
     /\ ~config.client
     /\ ~config.url.set
     /\ config.clientOptions.set)
        => LET given == config.clientOptions.obj
           IN  /\ client.type = "options"
               /\ DOMAIN client.options = DOMAIN given
               /\ \A x \in DOMAIN given :
                   /\ client.options[x].type = given[x].type
                   /\ client.options[x].num = given[x].num
                   /\ client.options[x].str = given[x].str

\* a client has been constructed from clientOptions that hold a url and a callback
C21_Witness ==
    /\ client.type = "options"
    /\ config.url = AbsentUrl
    /\ DOMAIN config.clientOptions.obj = OptionKeys
    /\ client.options["url"] = JsStr(SecondaryUrl)
    /\ client.options["onconnect"] = JsFn(1)

(***************************************************************************)
(* C22: the shape of the construction arguments is decided by which of url *)
(* and clientOptions are present, an empty url counting as absent: the     *)
(* bare url string if and only if the url is set and clientOptions is      *)
(* absent, an options object if and only if clientOptions is present, no   *)
(* argument if and only if both are absent; init() always ends with        *)
(* exactly one of the three.                                               *)
(***************************************************************************)
C22_ShapeTotal ==
    (client # Uninitialized /\ ~config.client) =>
        LET hasUrl == config.url.set /\ config.url.val # ""
            hasOptions == config.clientOptions.set
        IN  /\ client.type \in {"url-string", "options", "empty"}
            /\ (client.type = "url-string") <=> (hasUrl /\ ~hasOptions)
            /\ (client.type = "options") <=> hasOptions
            /\ (client.type = "empty") <=> (~hasUrl /\ ~hasOptions)
            /\ client.type = "url-string" => client.url = config.url.val

\* a client has been constructed from the bare url
C22_Witness ==
    /\ ~config.client
    /\ config.url = Url(PrimaryUrl)
    /\ ~config.clientOptions.set
    /\ client = UrlString(PrimaryUrl)

(***************************************************************************)
(* C23: when the identity query of an acquireConnection answers a valid    *)
(* PID p at time now, the hook is invoked if and only if p is absent from  *)
(* the map or now - lastSeen(p) > TTL, and from that step on the map holds *)
(* lastSeen(p) = now; the call that does not invoke the hook returns in    *)
(* that step. The call that awaits the hook returns with the entry as it   *)
(* wrote it unless, in the meantime, destroy() cleared the map, a later    *)
(* acquisition observed p, or the TTL has passed.                          *)
(***************************************************************************)

\* the observation of call k, and whether a later one of the same PID exists
ObservationOf(k) == CHOOSE i \in DOMAIN obsLog : obsLog[i].call = k
ObservedAgain(k) ==
    \E j \in DOMAIN obsLog :
        j > ObservationOf(k) /\ obsLog[j].pid = obsLog[ObservationOf(k)].pid

\* as claimed: whenever acquireConnection returns a handle, the map holds
\* lastSeen(p) = the time of its lookup
C23_AsClaimed ==
    [][\A k \in Calls :
         (pc[k] \in {"query", "hook"} /\ pc'[k] = "held") =>
             LET o == obsLog'[ObservationOf(k)']
             IN  /\ o.pid \in DOMAIN initializedPids'
                 /\ initializedPids'[o.pid] = o.at]_vars

C23_HookIffNew ==
    [][\A k \in Calls :
         /\ (pc[k] = "query" /\ pc'[k] \in {"hook", "held"}) =>
                LET p == reply'[k][1][1].pid
                    isNew == \/ p \notin DOMAIN initializedPids
                             \/ now - initializedPids[p] > connectionTtlMs
                IN  /\ p.type = "number"
                    /\ (Len(hookLog') = Len(hookLog) + 1) <=> isNew
                    /\ isNew <=> pc'[k] = "hook"
                    /\ isNew => /\ hookLog'[Len(hookLog')].pid = p
                                /\ hookLog'[Len(hookLog')].call = k
                    /\ ~isNew => hookLog' = hookLog
                    /\ p \in DOMAIN initializedPids'
                    /\ initializedPids'[p] = now
         /\ (/\ pc[k] = "hook" /\ pc'[k] = "held"
             /\ hookLog[HookOf(k)].destroys = destroyCalls
             /\ ~ObservedAgain(k)
             /\ now - hookLog[HookOf(k)].at <= connectionTtlMs) =>
                LET h == hookLog[HookOf(k)]
                IN  /\ h.pid \in DOMAIN initializedPids'
                    /\ initializedPids'[h.pid] = h.at]_vars

\* one PID has had the hook twice with no destroy() and no prune between: the
\* second lookup found the entry of the first, older than the TTL
C23_Witness ==
    \E i, j \in DOMAIN hookLog :
        /\ i < j
        /\ hookLog[i].pid = hookLog[j].pid
        /\ destroyCalls = 0
        /\ lastPruneTime <= hookLog[i].at
        /\ hookLog[j].at - hookLog[i].at > connectionTtlMs
        /\ pc[hookLog[j].call] = "held"
        /\ initializedPids[hookLog[j].pid] = hookLog[j].at

(***************************************************************************)
(* C24: the hook fires at most once per PID and TTL window as long as      *)
(* destroy() does not come between: any two hook invocations for one PID   *)
(* with no destroy() call between them are more than the TTL apart, over   *)
(* every interleaving of acquire, release and destroy.                     *)
(***************************************************************************)

\* as claimed: any two hook invocations for one PID are more than the TTL apart
C24_AsClaimed ==
    \A i, j \in DOMAIN hookLog :
        (i < j /\ hookLog[i].pid = hookLog[j].pid) =>
            hookLog[j].at - hookLog[i].at > connectionTtlMs

C24_AtMostOncePerWindow ==
    \A i, j \in DOMAIN hookLog :
        (/\ i < j
         /\ hookLog[i].pid = hookLog[j].pid
         /\ hookLog[i].destroys = hookLog[j].destroys) =>
            hookLog[j].at - hookLog[i].at > connectionTtlMs

\* under the default TTL one PID has had the hook twice, more than an hour
\* apart, and destroy() was called only afterwards
C24_Witness ==
    /\ connectionTtlMs = DEFAULT_CONNECTION_TTL_MS
    /\ destroyCalls = 1
    /\ \E i, j \in DOMAIN hookLog :
        /\ i < j
        /\ hookLog[i].pid = hookLog[j].pid
        /\ hookLog[i].destroys = 0
        /\ hookLog[j].destroys = 0

(***************************************************************************)
(* C25: two concurrent acquireConnection calls that observe the same PID   *)
(* do not both treat it as new. The lookup and the write of lastSeen are   *)
(* one stretch without a suspension point, so when one call has invoked    *)
(* the hook for p, then, with no destroy() since and within the TTL, a     *)
(* call that resumes from its identity query with p finds the entry,       *)
(* returns its handle and invokes nothing.                                 *)
(***************************************************************************)

C26_AtLeastOnce ==
    \A k \in Calls :
        (/\ config.onCreateConnection
         /\ pc[k] \in {"held", "released"}) =>
            /\ reply[k] # << >>
            /\ \E i \in DOMAIN hookLog :
                /\ hookLog[i].pid = reply[k][1][1].pid
                /\ hookLog[i].at <= obsLog[ObservationOf(k)].at

\* two handles have been returned for two PIDs, and the hook has run once for each
C26_Witness ==
    /\ pc[1] \in {"held", "released"}
    /\ pc[2] \in {"held", "released"}
    /\ Cardinality(Observed) = 2
    /\ Len(hookLog) = 2
    /\ hookLog[1].pid # hookLog[2].pid

(***************************************************************************)
(* C27: right after a prune pass that ran (it was not throttled, so it set *)
(* the last-prune time to now), the map holds no entry with                *)
(* now - lastSeen > TTL.                                                   *)
(***************************************************************************)
C27_NoStaleAfterPrune ==
    [][lastPruneTime' # lastPruneTime =>
         /\ lastPruneTime' = now'
         /\ \A p \in DOMAIN initializedPids' :
                now' - initializedPids'[p] <= connectionTtlMs]_vars

\* a prune pass has just run and has deleted the entry of an observed PID,
\* while keeping the entry of another
C27_Witness ==
    /\ lastPruneTime = now
    /\ \E k \in Calls : pc[k] = "query"
    /\ \E p \in Observed : p \notin DOMAIN initializedPids
    /\ \E p \in Observed : p \in DOMAIN initializedPids

(***************************************************************************)
(* C28: pruning is throttled. A prune pass deletes entries and sets the    *)
(* last-prune time only if at least the prune interval (60,000 ms) has     *)
(* passed since the last pass that ran; otherwise the call leaves the map  *)
(* and the last-prune time as they are. Two passes that run are at least   *)
(* one interval apart.                                                     *)
(***************************************************************************)

\* as claimed: a pass runs only if more than the interval has passed
C28_AsClaimed ==
    [][lastPruneTime' # lastPruneTime =>
         now - lastPruneTime > PRUNE_INTERVAL_MS]_vars

C28_Throttled ==
    [][/\ lastPruneTime' # lastPruneTime =>
            /\ now - lastPruneTime >= 60000
            /\ lastPruneTime' = now
       /\ \A k \in Calls :
            (pc[k] = "reserve" /\ pc'[k] = "query") =>
                IF now - lastPruneTime >= 60000
                THEN /\ lastPruneTime' = now
                     /\ DOMAIN initializedPids' \subseteq DOMAIN initializedPids
                     /\ \A p \in DOMAIN initializedPids :
                            p \in DOMAIN initializedPids' <=>
                                now - initializedPids[p] <= connectionTtlMs
                ELSE /\ lastPruneTime' = lastPruneTime
                     /\ initializedPids' = initializedPids]_vars

\* a pass ran at the first acquisition, the pass of an acquisition half an
\* interval later was throttled and left a stale entry in the map, and a pass
\* ran again exactly one interval after the first
C28_Witness ==
    /\ connectionTtlMs = 0
    /\ Len(obsLog) >= 2
    /\ obsLog[1].at = StartTime
    /\ obsLog[2].at = StartTime + PRUNE_INTERVAL_MS \div 2
    /\ obsLog[2].pid # obsLog[1].pid
    /\ lastPruneTime = StartTime + PRUNE_INTERVAL_MS
    /\ \E k \in Calls : pc[k] = "query"

(***************************************************************************)
(* C29: the PID map and the last-prune time are changed only by            *)
(* acquireConnection with a hook configured (its prune pass and its write  *)
(* of the observed PID) and by destroy(). init, beginTransaction,          *)
(* commitTransaction, rollbackTransaction, releaseConnection,              *)
(* executeQuery, streamQuery and acquireConnection without a hook leave    *)
(* both as they are.                                                       *)
(***************************************************************************)
C29_Frame ==
    [][(initializedPids' # initializedPids \/ lastPruneTime' # lastPruneTime) =>
         \/ /\ config.onCreateConnection
            /\ \E k \in Calls :
                   \/ pc[k] = "reserve" /\ pc'[k] = "query"
                   \/ pc[k] = "query" /\ pc'[k] \in {"hook", "held"}
         \/ /\ destroyCalls' = destroyCalls + 1
            /\ lastPruneTime' = lastPruneTime]_vars

\* with a hook configured the first handle has run a transaction command and
\* has been released, the second has a stream open, and the map and the
\* last-prune time are as the acquisitions left them
C29_Witness ==
    /\ config.onCreateConnection
    /\ client # Uninitialized
    /\ destroyCalls = 0
    /\ pc[1] = "released"
    /\ Len(ops[1]) = 1
    /\ ops[1][1].op = "commitTransaction"
    /\ pc[2] = "held"
    /\ stream[2].state = "done"
    /\ lastPruneTime = StartTime
    /\ DOMAIN initializedPids = Observed
    /\ Cardinality(Observed) = 2

(***************************************************************************)
(* C30: the TTL is fixed at construction: 3,600,000 ms when                *)
(* clientOptions.maxLifetime is undefined, otherwise maxLifetime x 1000,   *)
(* and no operation changes it.                                            *)
(***************************************************************************)
C30_TtlFixed ==
    [][/\ connectionTtlMs' = connectionTtlMs
       /\ config' = config
       /\ connectionTtlMs =
             IF config.clientOptions.set
                /\ "maxLifetime" \in DOMAIN config.clientOptions.obj
             THEN config.clientOptions.obj["maxLifetime"].num * 1000
             ELSE 3600000]_vars

\* a driver constructed with maxLifetime 1800 has a TTL of 1,800,000 ms after
\* init(), an acquisition with the hook and destroy()
C30_Witness ==
    /\ config.clientOptions.set
    /\ "maxLifetime" \in DOMAIN config.clientOptions.obj
    /\ config.clientOptions.obj["maxLifetime"] = JsNum(1800)
    /\ connectionTtlMs = 1800000
    /\ client # Uninitialized
    /\ Len(hookLog) = 1
    /\ destroyPc = "done"

(***************************************************************************)
(* C40: a top-level url that is the empty string is treated as an absent   *)
(* url. With clientOptions present the client is constructed from an       *)
(* options object with the keys and values of clientOptions, its own url   *)
(* kept; with clientOptions absent it is constructed with no argument. The *)
(* empty string is never passed on as the url.                             *)
(***************************************************************************)
C40_EmptyUrlAsAbsent ==
    (/\ client # Uninitialized
     /\ ~config.client
     /\ config.url.set
     /\ config.url.val = "") =>
        /\ client.type # "url-string"
        /\ IF config.clientOptions.set
           THEN /\ client.type = "options"
                /\ DOMAIN client.options = DOMAIN config.clientOptions.obj
                /\ \A x \in DOMAIN client.options :
                       client.options[x] = config.clientOptions.obj[x]
                /\ \A x \in DOMAIN client.options :
                       client.options[x] # JsStr("")
           ELSE client.type = "empty"

\* init() has run with an empty url and clientOptions that hold a url of
\* their own, which the options object still holds
C40_Witness ==
    /\ config.url = Url("")
    /\ ~config.client
    /\ config.clientOptions.set
    /\ "url" \in DOMAIN config.clientOptions.obj
    /\ client.type = "options"
    /\ client.options["url"] = JsStr(SecondaryUrl)

(***************************************************************************)
(* C39, as claimed: with clientOptions.maxLifetime = 0 and a hook,         *)
(* sequential acquire/release cycles that observe one PID at increasing    *)
(* times invoke the hook for it only once.                                 *)
(***************************************************************************)
C39_AsClaimed ==
    (/\ config.onCreateConnection
     /\ config.clientOptions.set
     /\ "maxLifetime" \in DOMAIN config.clientOptions.obj
     /\ config.clientOptions.obj["maxLifetime"] = JsNum(0)
     /\ \A k \in Calls : err[k] = "none")
        => \A p \in Observed : HookCount(p) <= 1

(***************************************************************************)
(* C38: the TTL window slides with use. In sequential acquisitions, the    *)
(* hook is invoked for a PID only at its first observation or at an        *)
(* observation that comes more than the TTL after the previous observation *)
(* of that PID: a sequence in which each acquisition of the PID comes no   *)
(* more than the TTL after the one before invokes the hook for the first   *)
(* only, however long the sequence lasts and whatever prune passes run.    *)
(***************************************************************************)

\* the observations of the PID of observation i that came before it
EarlierObs(i) == {j \in 1..(i - 1) : obsLog[j].pid = obsLog[i].pid}

\* the observation at which hook invocation h was made
ObsOfHook(h) ==
    CHOOSE i \in DOMAIN obsLog : obsLog[i].call = hookLog[h].call

C38_WindowSlides ==
    \A h \in DOMAIN hookLog :
        LET i == ObsOfHook(h)
        IN  \A j \in EarlierObs(i) :
                (\A l \in EarlierObs(i) : l <= j) =>
                    obsLog[i].at - obsLog[j].at > connectionTtlMs

\* under the default TTL three acquisitions of one PID, each exactly one TTL
\* after the one before, so that the third comes two TTLs after the first
\* and after two prune passes: the hook has been invoked once
C38_Witness ==
    /\ connectionTtlMs = DEFAULT_CONNECTION_TTL_MS
    /\ Len(obsLog) = 3
    /\ \A i \in 1..3 : obsLog[i].pid = obsLog[1].pid
    /\ obsLog[2].at - obsLog[1].at = connectionTtlMs
    /\ obsLog[3].at - obsLog[2].at = connectionTtlMs
    /\ lastPruneTime = obsLog[3].at
    /\ Len(hookLog) = 1
    /\ pc[3] = "held"

(***************************************************************************)
(* C34, as claimed: when acquireConnection fails after reserve() has       *)
(* resolved (the identity query rejects, it answers no usable PID, or the  *)
(* hook throws), the reserved connection has been released to the pool.    *)
(***************************************************************************)
C34_AsClaimed ==
    \A k \in Calls :
        (pc[k] = "failed" /\ err[k] \in {"query", "pid", "hook"}) =>
            /\ releaseCalls[k] = 1
            /\ reservedBy[conn[k]] # k

(***************************************************************************)
(* C35, as claimed: a PID counts as initialized only after its hook has    *)
(* completed. When the hook threw for PID p, the next acquisition that     *)
(* observes p, within the TTL, invokes the hook again.                     *)
(***************************************************************************)
C35_AsClaimed ==
    \A h \in DOMAIN hookLog, i \in DOMAIN obsLog :
        (/\ hookLog[h].state = "rejected"
         /\ i > ObsOfHook(h)
         /\ obsLog[i].pid = hookLog[h].pid
         /\ \A j \in EarlierObs(i) : j <= ObsOfHook(h)
         /\ obsLog[i].at - hookLog[h].at <= connectionTtlMs) =>
            \E g \in DOMAIN hookLog : hookLog[g].call = obsLog[i].call

(***************************************************************************)
(* C36, as claimed: once destroy() has cleared the map it stays empty: as  *)
(* long as no acquireConnection has been called after destroy(), the calls *)
(* that were in flight at destroy() insert and refresh nothing.            *)
(***************************************************************************)
C36_AsClaimed ==
    (destroyCalls >= 1 /\ Started = atDestroy.started) =>
        initializedPids = EmptyMap

(***************************************************************************)
(* C37: concurrent acquireConnection calls that observe pairwise distinct  *)
(* PIDs invoke the hook exactly once per PID, each by the call that        *)
(* observed it, in every interleaving at reserve, identity query and hook. *)
(* The map holds nothing but observed PIDs, and it holds every observed    *)
(* PID with the time of its observation as long as that time is not more   *)
(* than the TTL in the past: no call loses or overwrites the entry of      *)
(* another, and only the prune pass of a call deletes an expired one.      *)
(***************************************************************************)

\* the acquireConnection calls made have all returned a handle
AllReturned ==
    \A k \in Calls : pc[k] \in {"idle", "held", "released"}

\* the observations so far are of pairwise distinct PIDs
DistinctPids == Cardinality(Observed) = Len(obsLog)

\* as claimed: the calls end with one map entry per PID, whatever the clock;
\* stated for the default TTL
C37_AsClaimed ==
    (/\ config.onCreateConnection
     /\ ~config.clientOptions.set
     /\ destroyCalls = 0
     /\ AllReturned
     /\ DistinctPids) =>
        /\ \A p \in Observed : HookCount(p) = 1
        /\ DOMAIN initializedPids = Observed

C37_DistinctPids ==
    (/\ config.onCreateConnection
     /\ destroyCalls = 0
     /\ DistinctPids) =>
        /\ DOMAIN initializedPids \subseteq Observed
        /\ \A i \in DOMAIN obsLog :
            /\ HookCount(obsLog[i].pid) = 1
            /\ \E h \in DOMAIN hookLog :
                   /\ hookLog[h].pid = obsLog[i].pid
                   /\ hookLog[h].call = obsLog[i].call
            /\ now - obsLog[i].at <= connectionTtlMs =>
                   /\ obsLog[i].pid \in DOMAIN initializedPids
                   /\ initializedPids[obsLog[i].pid] = obsLog[i].at

\* two calls await their hooks at the same time, for two PIDs, the second
\* observed one prune interval after the first, and the map holds both
C37_Witness ==
    /\ destroyCalls = 0
    /\ pc[1] = "hook"
    /\ pc[2] = "hook"
    /\ hookLog[1].pid # hookLog[2].pid
    /\ hookLog[2].at = hookLog[1].at + PRUNE_INTERVAL_MS
    /\ DOMAIN initializedPids = Observed
    /\ Cardinality(Observed) = 2

(***************************************************************************)
(* C33: when unsafe() rejects during executeQuery, beginTransaction,       *)
(* commitTransaction or rollbackTransaction, the operation ends with that  *)
(* rejection and delivers no result; nothing more is sent (each operation  *)
(* has sent its statement exactly once), the handle stays held and its     *)
(* connection reserved, and the PID map and the last-prune time are left   *)
(* as they are.                                                            *)
(***************************************************************************)
C33_StatementError ==
    [][\A k \in Calls :
         (pc[k] = "busy" /\ outcome'[k] = "rejected") =>
             /\ pc'[k] = "held"
             /\ issued' = issued
             /\ \A i \in DOMAIN ops[k] :
                    Cardinality({n \in DOMAIN issued[k] : issued[k][n].op = i}) = 1
             /\ returned' = returned
             /\ releaseCalls' = releaseCalls
             /\ reservedBy' = reservedBy
             /\ reservedBy[conn[k]] = k
             /\ err' = err
             /\ initializedPids' = initializedPids
             /\ lastPruneTime' = lastPruneTime]_vars

\* on a handle acquired with the hook, begin and a query were rejected and
\* the rollback sent after them has been rejected too
C33_Witness ==
    /\ DOMAIN initializedPids # {}
    /\ pc[1] = "held"
    /\ outcome[1] = "rejected"
    /\ ~returned[1].set
    /\ Len(ops[1]) = 3
    /\ ops[1][1].op = "beginTransaction"
    /\ ops[1][2].op = "executeQuery"
    /\ ops[1][3].op = "rollbackTransaction"
    /\ Len(issued[1]) = 4
    /\ releaseCalls[1] = 0

(***************************************************************************)
(* C32: commands issued through one handle reach its connection in         *)
(* submission order: the j-th executeQuery call on a handle has made the   *)
(* j-th unsafe call on its connection, with its text and parameters, by    *)
(* the time the call is made. The handle does not queue: a call made while *)
(* earlier ones are in flight is sent at once, after them, and a handle    *)
(* has no command in flight only when every call on it has settled.        *)
(***************************************************************************)

\* the unsafe calls of the caller's operations on handle k are those
\* operations, in the order in which they were called
InSubmissionOrder(k) ==
    LET st == CallerStmts(k)
    IN  /\ Len(st) = Len(ops[k])
        /\ \A j \in DOMAIN st :
            /\ st[j].op = j
            /\ st[j].on = conn[k]
            /\ st[j].sql = ops[k][j].query.sql
            /\ st[j].params = ops[k][j].query.parameters

\* as claimed: no command is sent while an earlier one is in flight
C32_AsClaimed ==
    \A k \in Calls : InSubmissionOrder(k) /\ inflight[k] <= 1

C32_SubmissionOrder ==
    \A k \in Calls :
        /\ InSubmissionOrder(k)
        /\ inflight[k] <= Len(CallerStmts(k))
        /\ pc[k] = "busy" <=> inflight[k] > 0
        /\ pc[k] \in {"held", "released"} => inflight[k] = 0

\* three calls without awaiting, of two different queries; the first has
\* resolved and the other two are in flight
C32_Witness ==
    /\ Len(ops[1]) = 3
    /\ ops[1][1].query = InsertQuery
    /\ ops[1][2].query = SelectQuery
    /\ ops[1][3].query = InsertQuery
    /\ inflight[1] = 2
    /\ returned[1].set
    /\ returned[1].op = 1
    /\ pc[1] = "busy"

(***************************************************************************)
(* C31, as claimed: after releaseConnection(handle) the handle is invalid. *)
(* A statement that reaches a physical connection comes from a handle that *)
(* has not been released and that holds the reservation of that            *)
(* connection, and a release on a released handle frees nothing.           *)
(***************************************************************************)
C31_AsClaimed ==
    [][\A k \in Calls :
         /\ Len(issued'[k]) > Len(issued[k]) =>
                LET st == issued'[k][Len(issued'[k])]
                IN  st.on # 0 => (pc[k] # "released" /\ reservedBy[st.on] = k)
         /\ (pc[k] = "released" /\ releaseCalls'[k] > releaseCalls[k]) =>
                reservedBy' = reservedBy]_vars

====
